---- MODULE Spec2Model ----
(***************************************************************************)
(* graph-ein: a property graph (Graph, Node, Edge) kept in a SQLite store  *)
(* (Database).  The model has the store as the Graph's connection sees it, *)
(* the committed store, and the Graph's in-memory view (schemas, nodes,    *)
(* edges); one action per Graph call.  The statements of src/ein/sql/*.sql *)
(* are not part of the sources at hand: the operators named Sql... give    *)
(* them the meaning the specification's persisted layout states.           *)
(***************************************************************************)
EXTENDS Integers, Sequences, FiniteSets, TLC

VARIABLES store, committed, schemas, nodes, edges, last, calls, only_adds

vars == <<store, committed, schemas, nodes, edges, last, calls, only_adds>>

(***************************************************************************)
(* Bounds and input domains.                                               *)
(***************************************************************************)
MaxCalls == 3

MaxBatch == 2

\* schema names are strings; the model keeps them as sequences of characters
\* so that str.split("_") can be computed: "a" and "a_b"
SchemaA == <<"a">>

SchemaAB == <<"a", "_", "b">>

SchemaNames == {SchemaA, SchemaAB}

NodeIds == {"n1", "n2"}

(***************************************************************************)
(* Python values: None, and a dict as the sequence of its (key, value)     *)
(* items in insertion order.  Keys and values are atoms: str or int.       *)
(***************************************************************************)
PyStr(v) == [t |-> "str", v |-> v]

PyInt(v) == [t |-> "int", v |-> v]

PyNone == [kind |-> "none", items |-> <<>>]

PyDict(items) == [kind |-> "dict", items |-> items]

\* {"x": 1}
BodyX == PyDict(<< <<PyStr("x"), PyInt("1")>> >>)

\* {"y": "v w", 2: 1}: a str with a blank in it, and an int key
BodyY == PyDict(<< <<PyStr("y"), PyStr("v w")>>, <<PyInt("2"), PyInt("1")>> >>)

Bodies == {BodyX, BodyY}

\* {"w": 1}
PropW == PyDict(<< <<PyStr("w"), PyInt("1")>> >>)

Properties == {PyNone, PropW}

(***************************************************************************)
(* JSON text: a sequence of tokens.                                        *)
(***************************************************************************)
Punct(c) == [t |-> "punct", v |-> c]

Blank == [t |-> "ws", v |-> " "]

StrTok(v) == [t |-> "str", v |-> v]

NumTok(v) == [t |-> "num", v |-> v]

\* json.dumps of a dict key: every key is written as a JSON string
DumpKey(k) == StrTok(k.v)

\* json.dumps of an atom value
DumpAtom(a) == IF a.t = "str" THEN StrTok(a.v) ELSE NumTok(a.v)

RECURSIVE DumpItems(_)
\* the items of a dict, separated by ", ", each as key ": " value
DumpItems(items) ==
    IF items = <<>> THEN <<>>
    ELSE LET h == Head(items)
             rest == Tail(items)
         IN <<DumpKey(h[1]), Punct(":"), Blank, DumpAtom(h[2])>>
            \o (IF rest = <<>> THEN <<>> ELSE <<Punct(","), Blank>> \o DumpItems(rest))

\* json.dumps with the default separators (", ", ": ")
JsonDumps(value) ==
    IF value.kind = "none" THEN <<[t |-> "null", v |-> "null"]>>
    ELSE <<Punct("{")>> \o DumpItems(value.items) \o <<Punct("}")>>

\* SQLite's json(X): the minified text, white space outside strings removed
SqlJson(text) == SelectSeq(text, LAMBDA tok : tok.t # "ws")

LoadAtom(tok) == IF tok.t = "str" THEN PyStr(tok.v) ELSE PyInt(tok.v)

RECURSIVE LoadItems(_)
\* the members of an object: key ":" value, separated by ","
LoadItems(toks) ==
    IF toks = <<>> THEN <<>>
    ELSE IF Head(toks) = Punct(",") THEN LoadItems(Tail(toks))
    ELSE << <<PyStr(toks[1].v), LoadAtom(toks[3])>> >>
         \o LoadItems(SubSeq(toks, 4, Len(toks)))

\* json.loads: white space is skipped, null is None, an object is a dict
JsonLoads(text) ==
    LET toks == SelectSeq(text, LAMBDA tok : tok.t # "ws")
    IN IF toks[1].t = "null" THEN PyNone
       ELSE PyDict(LoadItems(SubSeq(toks, 2, Len(toks) - 1)))

(***************************************************************************)
(* The store: the schemas that have their two tables, each schema's node   *)
(* table (id -> body text, NoText where the id has no row) and edge table  *)
(* (rows in rowid order).                                                  *)
(***************************************************************************)
NoText == <<>>

EmptyStore ==
    [tables |-> {},
     nodes |-> [s \in SchemaNames |-> [i \in NodeIds |-> NoText]],
     edges |-> [s \in SchemaNames |-> <<>>]]

Ok(st) == [ok |-> TRUE, st |-> st, err |-> ""]

Err(st, e) == [ok |-> FALSE, st |-> st, err |-> e]

EdgeRow(source, source_schema, target, target_schema, properties) ==
    [source |-> source, source_schema |-> source_schema,
     target |-> target, target_schema |-> target_schema,
     properties |-> properties]

\* create-schema.sql without IF NOT EXISTS: a table that exists is an error
SqlCreateSchema_FailsIfExists(st, schema_name) ==
    IF schema_name \in st.tables THEN Err(st, "OperationalError")
    ELSE Ok([st EXCEPT !.tables = @ \cup {schema_name}])

\* create-schema.sql: CREATE TABLE IF NOT EXISTS <schema>_nodes / <schema>_edges
SqlCreateSchema(st, schema_name) ==
    Ok([st EXCEPT !.tables = @ \cup {schema_name}])

\* an edge row of another schema refers to a node of schema_name
ReferencedFromOther(st, schema_name) ==
    \E s \in st.tables \ {schema_name} : \E j \in DOMAIN st.edges[s] :
        \/ st.edges[s][j].source_schema = schema_name
        \/ st.edges[s][j].target_schema = schema_name

\* what dropping a schema does when edges of other schemas refer to its nodes is
\* left open: the drop fails, or it leaves those edges dangling
DropPolicies == {"fail", "dangle"}

\* delete-schema.sql: DROP TABLE of both tables
SqlDropSchema(st, schema_name, policy) ==
    IF schema_name \notin st.tables THEN Err(st, "OperationalError")
    ELSE IF policy = "fail" /\ ReferencedFromOther(st, schema_name)
    THEN Err(st, "IntegrityError")
    ELSE Ok([st EXCEPT !.tables = @ \ {schema_name},
                       !.nodes[schema_name] = [i \in NodeIds |-> NoText],
                       !.edges[schema_name] = <<>>])

\* FOREIGN KEY(source) REFERENCES <source_schema>_nodes(id): the row exists
HasNode(st, schema_name, node_id) ==
    /\ schema_name \in st.tables
    /\ node_id \in NodeIds
    /\ st.nodes[schema_name][node_id] # NoText

\* insert-node.sql: INSERT INTO <schema>_nodes (id, body) VALUES (?, json(?)),
\* id being the primary key
SqlInsertNode(st, schema_name, node_id, body_text) ==
    IF schema_name \notin st.tables THEN Err(st, "OperationalError")
    ELSE IF st.nodes[schema_name][node_id] # NoText THEN Err(st, "IntegrityError")
    ELSE Ok([st EXCEPT !.nodes[schema_name][node_id] = SqlJson(body_text)])

\* insert-edge.sql without ON CONFLICT REPLACE and without the unique key: the
\* row is added again
SqlInsertEdge_KeepsDuplicate(st, schema_name, source, source_schema, target, target_schema, properties_text) ==
    LET row == EdgeRow(source, source_schema, target, target_schema, SqlJson(properties_text))
    IN IF {schema_name, source_schema, target_schema} \ st.tables # {}
       THEN Err(st, "OperationalError")
       ELSE IF ~(HasNode(st, source_schema, source) /\ HasNode(st, target_schema, target))
       THEN Err(st, "IntegrityError")
       ELSE Ok([st EXCEPT !.edges[schema_name] = @ \o <<row>>])

\* insert-edge.sql: INSERT INTO <schema>_edges VALUES (?, ?, ?, ?, json(?)) under
\* UNIQUE(source, source_schema, target, target_schema, properties) ON CONFLICT
\* REPLACE and the two foreign keys
SqlInsertEdge(st, schema_name, source, source_schema, target, target_schema, properties_text) ==
    LET row == EdgeRow(source, source_schema, target, target_schema, SqlJson(properties_text))
    IN IF {schema_name, source_schema, target_schema} \ st.tables # {}
       THEN Err(st, "OperationalError")
       ELSE IF ~(HasNode(st, source_schema, source) /\ HasNode(st, target_schema, target))
       THEN Err(st, "IntegrityError")
       ELSE Ok([st EXCEPT !.edges[schema_name] =
                   SelectSeq(@, LAMBDA r : r # row) \o <<row>>])

\* select-node.sql: SELECT * FROM <schema>_nodes WHERE id = ?; fetchone() gives
\* the row or None (here: the rows found, at most one)
SqlSelectNode(st, schema_name, node_id) ==
    IF st.nodes[schema_name][node_id] = NoText THEN <<>>
    ELSE <<[id |-> node_id, body |-> st.nodes[schema_name][node_id]]>>

\* select-edge.sql: SELECT * FROM <schema>_edges WHERE source = ? AND target = ?
SqlSelectEdge(st, schema_name, source_id, target_id) ==
    SelectSeq(st.edges[schema_name],
              LAMBDA r : r.source = source_id /\ r.target = target_id)

\* select-all-nodes.sql: SELECT * FROM <schema>_nodes
SqlSelectAllNodes(st, schema_name) ==
    {[id |-> i, body |-> st.nodes[schema_name][i]] :
        i \in {j \in NodeIds : st.nodes[schema_name][j] # NoText}}

\* select-all-edges.sql: SELECT * FROM <schema>_edges
SqlSelectAllEdges(st, schema_name) == st.edges[schema_name]

\* update-node.sql: UPDATE <schema>_nodes SET body = json(?) WHERE id = ?
SqlUpdateNode(st, schema_name, node_id, body_text) ==
    IF schema_name \notin st.tables THEN Err(st, "OperationalError")
    ELSE IF st.nodes[schema_name][node_id] = NoText THEN Ok(st)
    ELSE Ok([st EXCEPT !.nodes[schema_name][node_id] = SqlJson(body_text)])

\* the endpoints and endpoint schemas of two rows agree
SameEnds(r1, r2) ==
    /\ r1.source = r2.source /\ r1.source_schema = r2.source_schema
    /\ r1.target = r2.target /\ r1.target_schema = r2.target_schema

RECURSIVE UpdateRows(_, _, _, _, _)
\* from row i on, in rowid order, each row with the given source and target
\* gets the new properties; ON CONFLICT REPLACE deletes the other rows that
\* equal the updated row
UpdateRows(rows, i, source_id, target_id, properties) ==
    IF i > Len(rows) THEN rows
    ELSE IF rows[i].source = source_id /\ rows[i].target = target_id
    THEN LET new == [rows[i] EXCEPT !.properties = properties]
             before == SelectSeq(SubSeq(rows, 1, i - 1), LAMBDA r : r # new)
             after == SelectSeq(SubSeq(rows, i + 1, Len(rows)), LAMBDA r : r # new)
         IN UpdateRows(before \o <<new>> \o after, Len(before) + 2,
                       source_id, target_id, properties)
    ELSE UpdateRows(rows, i + 1, source_id, target_id, properties)

\* update-edge.sql: UPDATE <schema>_edges SET properties = json(?)
\* WHERE source = ? AND target = ?
SqlUpdateEdge(st, schema_name, source_id, target_id, properties_text) ==
    IF schema_name \notin st.tables THEN Err(st, "OperationalError")
    ELSE Ok([st EXCEPT !.edges[schema_name] =
                UpdateRows(@, 1, source_id, target_id, SqlJson(properties_text))])

\* some edge row of some schema refers to the node row (schema_name, node_id)
Referenced(st, schema_name, node_id) ==
    \E s \in st.tables : \E j \in DOMAIN st.edges[s] :
        \/ st.edges[s][j].source = node_id /\ st.edges[s][j].source_schema = schema_name
        \/ st.edges[s][j].target = node_id /\ st.edges[s][j].target_schema = schema_name

\* delete-node.sql: DELETE FROM <schema>_nodes WHERE id = ?; the foreign keys of
\* the edge tables keep a node that an edge row refers to
SqlDeleteNode(st, schema_name, node_id) ==
    IF schema_name \notin st.tables THEN Err(st, "OperationalError")
    ELSE IF st.nodes[schema_name][node_id] = NoText THEN Ok(st)
    ELSE IF Referenced(st, schema_name, node_id) THEN Err(st, "IntegrityError")
    ELSE Ok([st EXCEPT !.nodes[schema_name][node_id] = NoText])

\* delete-edge.sql: DELETE FROM <schema>_edges WHERE source = ? AND target = ?
SqlDeleteEdge(st, schema_name, source_id, target_id) ==
    IF schema_name \notin st.tables THEN Err(st, "OperationalError")
    ELSE Ok([st EXCEPT !.edges[schema_name] =
                SelectSeq(@, LAMBDA r : ~(r.source = source_id /\ r.target = target_id))])

\* delete-edges.sql: DELETE FROM <schema>_edges WHERE source = ? OR target = ?
SqlDeleteEdges(st, schema_name, source_id, target_id) ==
    IF schema_name \notin st.tables THEN Err(st, "OperationalError")
    ELSE Ok([st EXCEPT !.edges[schema_name] =
                SelectSeq(@, LAMBDA r : ~(r.source = source_id \/ r.target = target_id))])

\* str.lower, on the letters the operators at hand have
LowerChar(c) ==
    CASE c = "A" -> "a" [] c = "N" -> "n" [] c = "D" -> "d" [] c = "O" -> "o"
      [] c = "R" -> "r" [] c = "T" -> "t" [] OTHER -> c

Lower(str) == [i \in DOMAIN str |-> LowerChar(str[i])]

\* X LIKE '%pattern%': the pattern is a part of the text.  (On the bodies at
\* hand, lower case, no string holding a quote, a part of the text starts and
\* ends where tokens do.)
Like(text, pattern) ==
    \E i \in 0..(Len(text) - Len(pattern)) : SubSeq(text, i + 1, i + Len(pattern)) = pattern

\* one parameter of the WHERE clause of select-nodes.sql holds of a row:
\* id = '<id>', or json_extract(body, "$") LIKE '%<pattern>%'
HoldsOf(row, param) ==
    IF param.kind = "id" THEN row.id = param.id ELSE Like(row.body, param.pattern)

\* select-nodes.sql: SELECT * FROM <schema>_nodes WHERE <params>, the params
\* joined by the operator (an SQL keyword, of any case); no parameter at all,
\* or "not" between two, is no SQL expression
SqlSelectNodes(st, schema_name, params, sql_operator) ==
    IF schema_name \notin st.tables THEN [ok |-> FALSE, err |-> "OperationalError", rows |-> {}]
    ELSE IF params = <<>>
            \/ (Len(params) = 2 /\ Lower(sql_operator) \notin {<<"a", "n", "d">>, <<"o", "r">>})
    THEN [ok |-> FALSE, err |-> "OperationalError", rows |-> {}]
    ELSE [ok |-> TRUE, err |-> "",
          rows |-> {row \in SqlSelectAllNodes(st, schema_name) :
                      IF Len(params) = 1 THEN HoldsOf(row, params[1])
                      ELSE IF Lower(sql_operator) = <<"a", "n", "d">>
                      THEN HoldsOf(row, params[1]) /\ HoldsOf(row, params[2])
                      ELSE HoldsOf(row, params[1]) \/ HoldsOf(row, params[2])}]

\* the names of the two tables of a schema
NodesTable(schema_name) == schema_name \o <<"_", "nodes">>

EdgesTable(schema_name) == schema_name \o <<"_", "edges">>

\* select-schemas.sql: the names of all tables (sqlite_master, LIKE '' || '%')
SqlSelectSchemas(st) ==
    {NodesTable(s) : s \in st.tables} \cup {EdgesTable(s) : s \in st.tables}

RECURSIVE InsertNodes(_, _, _)
\* cursor.executemany(insert-node.sql, rows): the statement runs once per row,
\* in order, inside one open transaction; the first row that fails raises and
\* ends the run, and the rows before it stay written in the transaction
InsertNodes(st, schema_name, rows) ==
    IF rows = <<>> THEN Ok(st)
    ELSE LET r == SqlInsertNode(st, schema_name, Head(rows)[1], Head(rows)[2])
         IN IF r.ok THEN InsertNodes(r.st, schema_name, Tail(rows)) ELSE r

RECURSIVE InsertEdges(_, _, _)
\* cursor.executemany(insert-edge.sql, rows), likewise
InsertEdges(st, schema_name, rows) ==
    IF rows = <<>> THEN Ok(st)
    ELSE LET h == Head(rows)
             r == SqlInsertEdge(st, schema_name, h[1], h[2], h[3], h[4], h[5])
         IN IF r.ok THEN InsertEdges(r.st, schema_name, Tail(rows)) ELSE r

RECURSIVE SqlIdentifier(_)
\* the identifier the engine reads where a name stands in statement text:
\* the blanks before it are skipped
SqlIdentifier(name) ==
    IF name # <<>> /\ Head(name) = " " THEN SqlIdentifier(Tail(name)) ELSE name

\* Database._read_sql_file: sql_text.replace("{{schema_name}}", schema_name)
\* puts the name into the statement as it is given, unchecked; the tables the
\* statement then names are those of the identifier the engine reads there
ReadSqlFile(schema_name) == SqlIdentifier(schema_name)

(***************************************************************************)
(* Database: one connection.  db.st is what the connection reads, db.dur   *)
(* what has been committed.  Each call gives [ok, db, err].                *)
(***************************************************************************)
Conn(st, dur) == [st |-> st, dur |-> dur]

\* cursor.execute(statement) then connection.commit(): a statement that fails
\* raises before the commit and leaves the connection as it was
ExecuteCommit(db, r) ==
    IF r.ok THEN [ok |-> TRUE, db |-> Conn(r.st, r.st), err |-> ""]
    ELSE [ok |-> FALSE, db |-> db, err |-> r.err]

\* cursor.executescript(script) then connection.commit(): executescript commits
\* the pending transaction before it runs the script
ExecuteScriptCommit(db, r) ==
    IF r.ok THEN [ok |-> TRUE, db |-> Conn(r.st, r.st), err |-> ""]
    ELSE [ok |-> FALSE, db |-> Conn(db.st, db.st), err |-> r.err]

DbAddSchema(db, schema_name) ==
    ExecuteScriptCommit(db, SqlCreateSchema(db.st, ReadSqlFile(schema_name)))

DbDeleteSchema(db, schema_name, policy) ==
    ExecuteScriptCommit(db, SqlDropSchema(db.st, ReadSqlFile(schema_name), policy))

DbAddNode(db, schema_name, node_id, node_body) ==
    ExecuteCommit(db, SqlInsertNode(db.st, ReadSqlFile(schema_name), node_id, JsonDumps(node_body)))

\* the schema of an endpoint defaults to the edge table's schema
OrElse(name, schema_name) == IF name # <<>> THEN name ELSE schema_name

\* Database.add_edge storing absent properties as an empty object
DbAddEdge_DumpsEmptyDict(db, schema_name, source_id, target_id, source_schema_name, target_schema_name, properties) ==
    ExecuteCommit(db, SqlInsertEdge(db.st, ReadSqlFile(schema_name),
                                    source_id, OrElse(source_schema_name, schema_name),
                                    target_id, OrElse(target_schema_name, schema_name),
                                    JsonDumps(IF properties = PyNone
                                              THEN PyDict(<<>>) ELSE properties)))

\* Database.add_edge
DbAddEdge(db, schema_name, source_id, target_id, source_schema_name, target_schema_name, properties) ==
    ExecuteCommit(db, SqlInsertEdge(db.st, ReadSqlFile(schema_name),
                                    source_id, OrElse(source_schema_name, schema_name),
                                    target_id, OrElse(target_schema_name, schema_name),
                                    JsonDumps(properties)))

DbGetNode(db, schema_name, node_id) == SqlSelectNode(db.st, ReadSqlFile(schema_name), node_id)

DbGetEdge(db, schema_name, source_id, target_id) ==
    SqlSelectEdge(db.st, ReadSqlFile(schema_name), source_id, target_id)

\* Database.add_nodes: executemany, then commit; a failed executemany raises
\* before the commit and nothing rolls the transaction back
DbAddNodes(db, schema_name, node_rows) ==
    LET r == InsertNodes(db.st, ReadSqlFile(schema_name), node_rows)
    IN IF r.ok THEN [ok |-> TRUE, db |-> Conn(r.st, r.st), err |-> ""]
       ELSE [ok |-> FALSE, db |-> Conn(r.st, db.dur), err |-> r.err]

\* Database.add_edges: executemany, then commit
DbAddEdges(db, schema_name, edge_rows) ==
    LET r == InsertEdges(db.st, ReadSqlFile(schema_name), edge_rows)
    IN IF r.ok THEN [ok |-> TRUE, db |-> Conn(r.st, r.st), err |-> ""]
       ELSE [ok |-> FALSE, db |-> Conn(r.st, db.dur), err |-> r.err]

DbUpdateNode(db, schema_name, node_id, node_body) ==
    ExecuteCommit(db, SqlUpdateNode(db.st, ReadSqlFile(schema_name), node_id, JsonDumps(node_body)))

DbUpdateEdge(db, schema_name, source_id, target_id, properties) ==
    ExecuteCommit(db, SqlUpdateEdge(db.st, ReadSqlFile(schema_name), source_id, target_id, JsonDumps(properties)))

DbDeleteNode(db, schema_name, node_id) ==
    ExecuteCommit(db, SqlDeleteNode(db.st, ReadSqlFile(schema_name), node_id))

DbDeleteEdge(db, schema_name, source_id, target_id) ==
    ExecuteCommit(db, SqlDeleteEdge(db.st, ReadSqlFile(schema_name), source_id, target_id))

\* Database.delete_edges binding the id to the source parameter alone
DbDeleteEdges_SourceOnly(db, schema_name, source_or_target_id) ==
    ExecuteCommit(db, SqlDeleteEdges(db.st, ReadSqlFile(schema_name), source_or_target_id, ""))

\* Database.delete_edges: the id is bound to both parameters
DbDeleteEdges(db, schema_name, source_or_target_id) ==
    ExecuteCommit(db, SqlDeleteEdges(db.st, ReadSqlFile(schema_name), source_or_target_id,
                                     source_or_target_id))

ALLOWED_OPERATORS == {<<"a", "n", "d">>, <<"n", "o", "t">>, <<"o", "r">>}

RECURSIVE ColonBlanksOut(_)
\* str.replace(": ", ":")
ColonBlanksOut(text) ==
    IF text = <<>> THEN <<>>
    ELSE IF Len(text) >= 2 /\ text[1] = Punct(":") /\ text[2] = Blank
    THEN <<text[1]>> \o ColonBlanksOut(SubSeq(text, 3, Len(text)))
    ELSE <<text[1]>> \o ColonBlanksOut(Tail(text))

\* the text between the two % of the LIKE: json.dumps(node_body) without its
\* outer braces ("%{" -> "%", "}%" -> "%") and without the blank after a colon
JsonSearch(node_body) ==
    LET dumped == JsonDumps(node_body)
    IN ColonBlanksOut(SubSeq(dumped, 2, Len(dumped) - 1))

\* no node_id, no node_body
NoId == ""

\* sql_params of Database.get_nodes before the join
SqlParams(node_id, node_body) ==
    (IF node_id # NoId THEN <<[kind |-> "id", id |-> node_id]>> ELSE <<>>)
    \o (IF node_body # PyNone
        THEN <<[kind |-> "like", pattern |-> JsonSearch(node_body)]>> ELSE <<>>)

\* Database.get_nodes comparing the operator as given, without lower()
DbGetNodes_NoLower(db, schema_name, node_id, node_body, operator) ==
    IF operator \notin ALLOWED_OPERATORS
    THEN [ok |-> FALSE, err |-> "DisallowedOperatorError", rows |-> {}]
    ELSE SqlSelectNodes(db.st, ReadSqlFile(schema_name), SqlParams(node_id, node_body), operator)

\* Database.get_nodes joining the parameters with " or " whatever the operator
DbGetNodes_JoinsWithOr(db, schema_name, node_id, node_body, operator) ==
    IF Lower(operator) \notin ALLOWED_OPERATORS
    THEN [ok |-> FALSE, err |-> "DisallowedOperatorError", rows |-> {}]
    ELSE SqlSelectNodes(db.st, ReadSqlFile(schema_name), SqlParams(node_id, node_body), <<"o", "r">>)

\* Database.get_nodes: the operator goes into the statement as given, SQL
\* reading its keywords in any case
DbGetNodes(db, schema_name, node_id, node_body, operator) ==
    IF Lower(operator) \notin ALLOWED_OPERATORS
    THEN [ok |-> FALSE, err |-> "DisallowedOperatorError", rows |-> {}]
    ELSE SqlSelectNodes(db.st, ReadSqlFile(schema_name), SqlParams(node_id, node_body), operator)

(***************************************************************************)
(* Database.get_edges: the parameters go into the statement as text.       *)
(***************************************************************************)
\* str(atom): a str in single quotes, an int as a number
ReprAtom(a) == IF a.t = "str" THEN [t |-> "sqstr", v |-> a.v] ELSE NumTok(a.v)

RECURSIVE ReprItems(_)
\* the items of str(dict): key ": " value, separated by ", "
ReprItems(items) ==
    IF items = <<>> THEN <<>>
    ELSE LET h == Head(items)
             rest == Tail(items)
         IN <<ReprAtom(h[1]), Punct(":"), Blank, ReprAtom(h[2])>>
            \o (IF rest = <<>> THEN <<>> ELSE <<Punct(","), Blank>> \o ReprItems(rest))

\* '{properties}'.format(properties = a dict): str(dict), not JSON
PyFormat(value) == <<Punct("{")>> \o ReprItems(value.items) \o <<Punct("}")>>

\* '<text>' is one SQL string when the text has no single quote in it
OneSqlString(text) == \A i \in DOMAIN text : text[i].t # "sqstr"

\* sql_params of Database.get_edges before the join: a parameter that is None
\* or empty is left out
EdgeParams(source_id, target_id, properties) ==
    (IF source_id # NoId THEN <<[kind |-> "source", text |-> source_id]>> ELSE <<>>)
    \o (IF target_id # NoId THEN <<[kind |-> "target", text |-> target_id]>> ELSE <<>>)
    \o (IF properties # PyNone /\ properties.items # <<>>
        THEN <<[kind |-> "properties", text |-> PyFormat(properties)]>> ELSE <<>>)

\* one "column" = '<text>' of the WHERE clause, for a row
EdgeHoldsOf(row, param) ==
    CASE param.kind = "source" -> row.source = param.text
      [] param.kind = "target" -> row.target = param.text
      [] OTHER -> row.properties = param.text

\* select-edges.sql: SELECT * FROM <schema>_edges WHERE <params>, the params
\* joined by OR; no parameter at all, or a text that is not one SQL string,
\* is no SQL expression
SqlSelectEdges(st, schema_name, params) ==
    IF schema_name \notin st.tables THEN [ok |-> FALSE, err |-> "OperationalError", rows |-> <<>>]
    ELSE IF params = <<>>
            \/ \E i \in DOMAIN params :
                  params[i].kind = "properties" /\ ~OneSqlString(params[i].text)
    THEN [ok |-> FALSE, err |-> "OperationalError", rows |-> <<>>]
    ELSE [ok |-> TRUE, err |-> "",
          rows |-> SelectSeq(st.edges[schema_name],
                             LAMBDA row : \E i \in DOMAIN params : EdgeHoldsOf(row, params[i]))]

\* Database.get_edges
DbGetEdges(db, schema_name, source_id, target_id, properties) ==
    SqlSelectEdges(db.st, ReadSqlFile(schema_name),
                   EdgeParams(source_id, target_id, properties))

(***************************************************************************)
(* Arbitrary SQL text: a sequence of words, ";" a word of its own.         *)
(***************************************************************************)
\* the name of the edge table of a schema, as a word of SQL text
EdgesTableWord(schema_name) == IF schema_name = SchemaA THEN "a_edges" ELSE "a_b_edges"

\* sqlite3.complete_statement: the text ends with a semicolon.  (The texts at
\* hand hold no string or comment with a semicolon in it and no trigger.)
CompleteStatement(sql_text) == sql_text # <<>> /\ sql_text[Len(sql_text)] = ";"

\* the engine running one statement, with or without its semicolon:
\* SELECT 'test' gives one row; DELETE FROM <schema>_edges empties the table;
\* anything else here is a syntax error or names a table that is missing
SqlExecuteText(st, sql_text) ==
    LET stmt == IF CompleteStatement(sql_text)
                THEN SubSeq(sql_text, 1, Len(sql_text) - 1) ELSE sql_text
    IN IF stmt = <<"SELECT", "'test'">>
       THEN [ok |-> TRUE, st |-> st, err |-> "", rows |-> <<"test">>]
       ELSE IF Len(stmt) = 3 /\ stmt[1] = "DELETE" /\ stmt[2] = "FROM"
               /\ \E s \in st.tables : stmt[3] = EdgesTableWord(s)
       THEN LET s == CHOOSE s \in st.tables : stmt[3] = EdgesTableWord(s)
            IN [ok |-> TRUE, st |-> [st EXCEPT !.edges[s] = <<>>], err |-> "", rows |-> <<>>]
       ELSE [ok |-> FALSE, st |-> st, err |-> "OperationalError", rows |-> <<>>]

\* "select" in sql_text.lower()
HasSelect(sql_text) == \E i \in DOMAIN sql_text : sql_text[i] \in {"SELECT", "select"}

\* what a call returns when it has nothing to return
ReturnsNone == <<"None">>

\* Database.execute_sql running whatever text it is given
DbExecuteSql_NoCheck(db, sql_text) ==
    LET r == SqlExecuteText(db.st, sql_text)
    IN IF r.ok
       THEN [ok |-> TRUE, db |-> Conn(r.st, db.dur), err |-> "", printed |-> "",
             value |-> IF HasSelect(sql_text) THEN r.rows ELSE ReturnsNone]
       ELSE [ok |-> TRUE, db |-> db, err |-> "", printed |-> r.err, value |-> ReturnsNone]

\* Database.execute_sql: an incomplete text raises; a complete one is executed
\* (no commit), the rows are fetched when the text holds "select", and an
\* sqlite3.Error is printed, after which the call returns None
DbExecuteSql(db, sql_text) ==
    IF CompleteStatement(sql_text)
    THEN LET r == SqlExecuteText(db.st, sql_text)
         IN IF r.ok
            THEN [ok |-> TRUE, db |-> Conn(r.st, db.dur), err |-> "", printed |-> "",
                  value |-> IF HasSelect(sql_text) THEN r.rows ELSE ReturnsNone]
            ELSE [ok |-> TRUE, db |-> db, err |-> "", printed |-> r.err, value |-> ReturnsNone]
    ELSE [ok |-> FALSE, db |-> db, err |-> "IncompleteStatementError", printed |-> "",
          value |-> ReturnsNone]

\* Database.execute_sql_script: likewise with executescript, which commits the
\* pending transaction first, runs the statement in autocommit mode and leaves
\* no rows to fetch
DbExecuteSqlScript(db, sql_text) ==
    IF CompleteStatement(sql_text)
    THEN LET r == SqlExecuteText(db.st, sql_text)
         IN IF r.ok
            THEN [ok |-> TRUE, db |-> Conn(r.st, r.st), err |-> "", printed |-> "",
                  value |-> IF HasSelect(sql_text) THEN <<>> ELSE ReturnsNone]
            ELSE [ok |-> TRUE, db |-> Conn(db.st, db.st), err |-> "", printed |-> r.err,
                  value |-> ReturnsNone]
    ELSE [ok |-> FALSE, db |-> db, err |-> "IncompleteStatementError", printed |-> "",
          value |-> ReturnsNone]

DbGetSchemas(db) == SqlSelectSchemas(db.st)

DbGetAllNodes(db, schema_name) == SqlSelectAllNodes(db.st, ReadSqlFile(schema_name))

DbGetAllEdges(db, schema_name) == SqlSelectAllEdges(db.st, ReadSqlFile(schema_name))

(***************************************************************************)
(* Node and Edge objects.                                                  *)
(***************************************************************************)
NoName == <<>>

Node(schema_name, id, body) == [schema_name |-> schema_name, id |-> id, body |-> body]

\* Edge.__init__: an endpoint schema that is not given is the edge's schema
Edge(schema_name, source, target, source_schema_name, target_schema_name, properties) ==
    [schema_name |-> schema_name,
     source |-> source,
     source_schema_name |-> OrElse(source_schema_name, schema_name),
     target |-> target,
     target_schema_name |-> OrElse(target_schema_name, schema_name),
     properties |-> properties]

\* Edge.__eq__ comparing the schemas of the endpoints as well
EdgeEq_ComparesSchemas(edge, source, target) ==
    /\ source # PyNone /\ target # PyNone
    /\ edge.source.id = source.id /\ edge.target.id = target.id
    /\ edge.source_schema_name = source.schema_name
    /\ edge.target_schema_name = target.schema_name

\* Edge.__eq__(source, target): with both given (a Node is always true), the
\* ids of both endpoints agree; else None, which is false
EdgeEq(edge, source, target) ==
    /\ source # PyNone /\ target # PyNone
    /\ edge.source.id = source.id /\ edge.target.id = target.id

(***************************************************************************)
(* Graph: the in-memory view and the calls on it.                          *)
(***************************************************************************)
\* the Node and Edge objects a caller passes in
CallerNodes == {Node(s, i, b) : s \in SchemaNames, i \in NodeIds, b \in Bodies}

\* Edge(schema_name, source, target[, target_schema_name][, properties]) over
\* two different nodes of the schemas the edge names
CallerEdges ==
    UNION {{Edge(s, Node(s, ends[1], BodyX), Node(OrElse(ts, s), ends[2], BodyX), NoName, ts, p) :
               ends \in {e \in NodeIds \X NodeIds : e[1] # e[2]}, p \in Properties} :
           s \in SchemaNames, ts \in {NoName} \cup SchemaNames}

\* Edge(schema_name, source, target[, target_schema_name][, properties]) with
\* the target a node of another schema than the edge's, the schema of the
\* target given or not (test_graph_add_multi_schema_edge gives none)
CrossEdges ==
    UNION {{Edge(s, Node(s, ends[1], BodyX), Node(t, ends[2], BodyX), NoName, ts, p) :
               ends \in {e \in NodeIds \X NodeIds : e[1] # e[2]}, p \in Properties,
               ts \in {NoName, t}} :
           s \in SchemaNames, t \in SchemaNames}

\* Graph._create_node
CreateNode(schema_name, node_row) ==
    Node(schema_name, node_row.id, JsonLoads(node_row.body))

\* Graph._create_edge with the endpoints the wrong way round
CreateEdge_Swapped(view_nodes, schema_name, edge_row) ==
    Edge(schema_name, view_nodes[edge_row.target], view_nodes[edge_row.source],
         NoName, NoName, JsonLoads(edge_row.properties))

\* Graph._create_edge, when both get_node lookups find their key
CreateEdge(view_nodes, schema_name, edge_row) ==
    Edge(schema_name, view_nodes[edge_row.source], view_nodes[edge_row.target],
         NoName, NoName, JsonLoads(edge_row.properties))

\* Graph._create_edge raises KeyError when self.nodes lacks an endpoint's id
CreateEdgeRaises(view_nodes, edge_row) ==
    \/ edge_row.source \notin DOMAIN view_nodes
    \/ edge_row.target \notin DOMAIN view_nodes

\* self.nodes[key] = value
Put(view_nodes, key, value) ==
    [k \in (DOMAIN view_nodes) \cup {key} |-> IF k = key THEN value ELSE view_nodes[k]]

\* self.nodes.pop(key)
Pop(view_nodes, key) ==
    [k \in (DOMAIN view_nodes) \ {key} |-> view_nodes[k]]

\* nodes = {}
nodes0 == [k \in {} |-> Node(NoName, "", PyNone)]

\* what the last call was and whether it returned or raised
NoCall ==
    [op |-> "new", schema_name |-> NoName, source |-> "", target |-> "",
     target_schema |-> NoName, value |-> PyNone, ok |-> TRUE, err |-> ""]

Returned(op, schema_name, source, target, target_schema, value) ==
    [op |-> op, schema_name |-> schema_name, source |-> source, target |-> target,
     target_schema |-> target_schema, value |-> value, ok |-> TRUE, err |-> ""]

Raised(op, err) == [NoCall EXCEPT !.op = op, !.ok = FALSE, !.err = err]

\* the program after a call: the connection, the Graph's view, the call's result
Outcome(db, view_schemas, view_nodes, view_edges, result) ==
    [store |-> db.st, committed |-> db.dur, schemas |-> view_schemas,
     nodes |-> view_nodes, edges |-> view_edges, last |-> result]

\* Graph.add_schema
GraphAddSchema(g, schema_name) ==
    LET r == DbAddSchema(Conn(g.store, g.committed), schema_name)
    IN IF ~r.ok
       THEN {Outcome(r.db, g.schemas, g.nodes, g.edges, Raised("add_schema", r.err))}
       ELSE {Outcome(r.db, g.schemas \cup {schema_name}, g.nodes, g.edges,
                     Returned("add_schema", schema_name, "", "", NoName, PyNone))}

\* Graph.add_node caching the caller's node before the Database call
GraphAddNode_CachesFirst(g, schema_name, node) ==
    LET r == DbAddNode(Conn(g.store, g.committed), schema_name, node.id, node.body)
    IN IF ~r.ok
       THEN {Outcome(r.db, g.schemas, Put(g.nodes, node.id, node), g.edges,
                     Raised("add_node", r.err))}
       ELSE {Outcome(r.db, g.schemas, Put(g.nodes, node.id, node), g.edges,
                     Returned("add_node", schema_name, node.id, "", NoName, node.body))}

\* Graph.add_node caching the caller's node instead of the row read back
GraphAddNode_CachesCaller(g, schema_name, node) ==
    LET r == DbAddNode(Conn(g.store, g.committed), schema_name, node.id, node.body)
    IN IF ~r.ok
       THEN {Outcome(r.db, g.schemas, g.nodes, g.edges, Raised("add_node", r.err))}
       ELSE {Outcome(r.db, g.schemas, Put(g.nodes, node.id, node), g.edges,
                     Returned("add_node", schema_name, node.id, "", NoName, node.body))}

\* Graph.add_node
GraphAddNode(g, schema_name, node) ==
    LET r == DbAddNode(Conn(g.store, g.committed), schema_name, node.id, node.body)
        new_node == DbGetNode(r.db, schema_name, node.id)[1]
    IN IF ~r.ok
       THEN {Outcome(r.db, g.schemas, g.nodes, g.edges, Raised("add_node", r.err))}
       ELSE {Outcome(r.db, g.schemas,
                     Put(g.nodes, new_node.id, CreateNode(schema_name, new_node)), g.edges,
                     Returned("add_node", schema_name, node.id, "", NoName, node.body))}

\* the (id, json.dumps(body)) tuples Graph.add_nodes passes on
NodeTuples(node_list) ==
    [i \in DOMAIN node_list |-> <<node_list[i].id, JsonDumps(node_list[i].body)>>]

RECURSIVE PutAll(_, _)
\* for node in nodes: self.nodes[node.id] = node
PutAll(view_nodes, node_list) ==
    IF node_list = <<>> THEN view_nodes
    ELSE PutAll(Put(view_nodes, Head(node_list).id, Head(node_list)), Tail(node_list))

\* Graph.add_nodes
GraphAddNodes(g, schema_name, node_list) ==
    LET r == DbAddNodes(Conn(g.store, g.committed), schema_name, NodeTuples(node_list))
    IN IF ~r.ok
       THEN {Outcome(r.db, g.schemas, g.nodes, g.edges, Raised("add_nodes", r.err))}
       ELSE {Outcome(r.db, g.schemas, PutAll(g.nodes, node_list), g.edges,
                     Returned("add_nodes", schema_name, "", "", NoName, node_list))}

\* Graph.add_edge appending the caller's edge before the Database call
GraphAddEdge_CachesFirst(g, edge) ==
    LET r == DbAddEdge(Conn(g.store, g.committed), edge.schema_name, edge.source.id,
                       edge.target.id, edge.source_schema_name,
                       edge.target_schema_name, edge.properties)
    IN IF ~r.ok
       THEN {Outcome(r.db, g.schemas, g.nodes, Append(g.edges, edge),
                     Raised("add_edge", r.err))}
       ELSE {Outcome(r.db, g.schemas, g.nodes, Append(g.edges, edge),
                     Returned("add_edge", edge.schema_name, edge.source.id,
                              edge.target.id, edge.target_schema_name, edge.properties))}

\* Graph.add_edge; fetchone() gives one of the rows the SELECT finds
GraphAddEdge(g, edge) ==
    LET r == DbAddEdge(Conn(g.store, g.committed), edge.schema_name, edge.source.id,
                       edge.target.id, edge.source_schema_name,
                       edge.target_schema_name, edge.properties)
        found == DbGetEdge(r.db, edge.schema_name, edge.source.id, edge.target.id)
    IN IF ~r.ok
       THEN {Outcome(r.db, g.schemas, g.nodes, g.edges, Raised("add_edge", r.err))}
       ELSE {IF CreateEdgeRaises(g.nodes, found[i])
             THEN Outcome(r.db, g.schemas, g.nodes, g.edges, Raised("add_edge", "KeyError"))
             ELSE Outcome(r.db, g.schemas, g.nodes,
                          Append(g.edges, CreateEdge(g.nodes, edge.schema_name, found[i])),
                          Returned("add_edge", edge.schema_name, edge.source.id,
                                   edge.target.id, edge.target_schema_name, edge.properties))
             : i \in DOMAIN found}

\* the tuples Graph.add_edges passes on
EdgeTuples(edge_list) ==
    [i \in DOMAIN edge_list |->
        <<edge_list[i].source.id, edge_list[i].source_schema_name,
          edge_list[i].target.id, edge_list[i].target_schema_name,
          JsonDumps(edge_list[i].properties)>>]

\* Graph.add_edges
GraphAddEdges(g, schema_name, edge_list) ==
    LET r == DbAddEdges(Conn(g.store, g.committed), schema_name, EdgeTuples(edge_list))
    IN IF ~r.ok
       THEN {Outcome(r.db, g.schemas, g.nodes, g.edges, Raised("add_edges", r.err))}
       ELSE {Outcome(r.db, g.schemas, g.nodes, g.edges \o edge_list,
                     Returned("add_edges", schema_name, "", "", NoName, PyNone))}

\* Graph.update_node caching the caller's node instead of the row read back
GraphUpdateNode_CachesCaller(g, node) ==
    LET r == DbUpdateNode(Conn(g.store, g.committed), node.schema_name, node.id, node.body)
    IN IF ~r.ok
       THEN {Outcome(r.db, g.schemas, g.nodes, g.edges, Raised("update_node", r.err))}
       ELSE {Outcome(r.db, g.schemas, Put(g.nodes, node.id, node), g.edges,
                     Returned("update_node", node.schema_name, node.id, "", NoName, node.body))}

\* Graph.update_node; _create_node(None) raises TypeError
GraphUpdateNode(g, node) ==
    LET r == DbUpdateNode(Conn(g.store, g.committed), node.schema_name, node.id, node.body)
        updated_node_data == DbGetNode(r.db, node.schema_name, node.id)
        updated_node == CreateNode(node.schema_name, updated_node_data[1])
    IN IF ~r.ok
       THEN {Outcome(r.db, g.schemas, g.nodes, g.edges, Raised("update_node", r.err))}
       ELSE IF updated_node_data = <<>>
       THEN {Outcome(r.db, g.schemas, g.nodes, g.edges, Raised("update_node", "TypeError"))}
       ELSE {Outcome(r.db, g.schemas, Put(g.nodes, updated_node.id, updated_node), g.edges,
                     Returned("update_node", node.schema_name, node.id, "", NoName, node.body))}

RECURSIVE RemoveInLoop(_, _, _, _)
\* for e in self.edges: if <e matches source, target>: self.edges.remove(e)
\* the list iterator moves on by one index after a removal as well; remove(e)
\* takes out the element the loop is at, the edges of the list being distinct
\* objects
RemoveInLoop(edge_list, i, source, target) ==
    IF i > Len(edge_list) THEN edge_list
    ELSE IF EdgeEq(edge_list[i], source, target)
    THEN RemoveInLoop(SubSeq(edge_list, 1, i - 1) \o SubSeq(edge_list, i + 1, Len(edge_list)),
                      i + 1, source, target)
    ELSE RemoveInLoop(edge_list, i + 1, source, target)

\* Graph.update_edge; _create_edge(None) raises TypeError
GraphUpdateEdge(g, edge) ==
    LET r == DbUpdateEdge(Conn(g.store, g.committed), edge.schema_name, edge.source.id,
                          edge.target.id, edge.properties)
        found == DbGetEdge(r.db, edge.schema_name, edge.source.id, edge.target.id)
    IN IF ~r.ok
       THEN {Outcome(r.db, g.schemas, g.nodes, g.edges, Raised("update_edge", r.err))}
       ELSE IF found = <<>>
       THEN {Outcome(r.db, g.schemas, g.nodes, g.edges, Raised("update_edge", "TypeError"))}
       ELSE {IF CreateEdgeRaises(g.nodes, found[i])
             THEN Outcome(r.db, g.schemas, g.nodes, g.edges, Raised("update_edge", "KeyError"))
             ELSE LET updated_edge == CreateEdge(g.nodes, edge.schema_name, found[i])
                  IN Outcome(r.db, g.schemas, g.nodes,
                             Append(RemoveInLoop(g.edges, 1, updated_edge.source,
                                                 updated_edge.target),
                                    updated_edge),
                             Returned("update_edge", edge.schema_name, edge.source.id,
                                      edge.target.id, NoName, edge.properties))
             : i \in DOMAIN found}

\* Graph.delete_schema; set.remove raises KeyError for a missing element
GraphDeleteSchema(g, schema_name) ==
    {LET r == DbDeleteSchema(Conn(g.store, g.committed), schema_name, policy)
     IN IF ~r.ok
        THEN Outcome(r.db, g.schemas, g.nodes, g.edges, Raised("delete_schema", r.err))
        ELSE IF schema_name \notin g.schemas
        THEN Outcome(r.db, g.schemas, g.nodes, g.edges, Raised("delete_schema", "KeyError"))
        ELSE Outcome(r.db, g.schemas \ {schema_name}, g.nodes, g.edges,
                     Returned("delete_schema", schema_name, "", "", NoName, PyNone))
     : policy \in DropPolicies}

\* Graph.delete_node that leaves self.nodes alone
GraphDeleteNode_KeepsCached(g, node) ==
    LET r == DbDeleteNode(Conn(g.store, g.committed), node.schema_name, node.id)
    IN IF ~r.ok
       THEN {Outcome(r.db, g.schemas, g.nodes, g.edges, Raised("delete_node", r.err))}
       ELSE {Outcome(r.db, g.schemas, g.nodes, g.edges,
                     Returned("delete_node", node.schema_name, node.id, "", NoName, PyNone))}

\* Graph.delete_node; dict.pop raises KeyError for a missing key
GraphDeleteNode(g, node) ==
    LET r == DbDeleteNode(Conn(g.store, g.committed), node.schema_name, node.id)
    IN IF ~r.ok
       THEN {Outcome(r.db, g.schemas, g.nodes, g.edges, Raised("delete_node", r.err))}
       ELSE IF node.id \notin DOMAIN g.nodes
       THEN {Outcome(r.db, g.schemas, g.nodes, g.edges, Raised("delete_node", "KeyError"))}
       ELSE {Outcome(r.db, g.schemas, Pop(g.nodes, node.id), g.edges,
                     Returned("delete_node", node.schema_name, node.id, "", NoName, PyNone))}

\* Graph.delete_edge
GraphDeleteEdge(g, edge) ==
    LET r == DbDeleteEdge(Conn(g.store, g.committed), edge.schema_name, edge.source.id,
                          edge.target.id)
    IN IF ~r.ok
       THEN {Outcome(r.db, g.schemas, g.nodes, g.edges, Raised("delete_edge", r.err))}
       ELSE {Outcome(r.db, g.schemas, g.nodes,
                     RemoveInLoop(g.edges, 1, edge.source, edge.target),
                     Returned("delete_edge", edge.schema_name, edge.source.id,
                              edge.target.id, NoName, PyNone))}

RECURSIVE SplitFirst(_)
\* name.split("_")[0]: the characters before the first underscore
SplitFirst(name) ==
    IF name = <<>> \/ Head(name) = "_" THEN <<>>
    ELSE <<Head(name)>> \o SplitFirst(Tail(name))

\* Graph._all_schemas
AllSchemas(db) == {SplitFirst(table_name) : table_name \in DbGetSchemas(db)}

\* the orders in which a for loop may go through a set
Orders(set) ==
    {f \in [1..Cardinality(set) -> set] : \A i, j \in DOMAIN f : f[i] = f[j] => i = j}

RECURSIVE AllSchemaNodes(_, _, _)
\* Graph._all_schema_nodes, the schemas taken in the given order: a node read
\* later replaces a node with the same id read earlier
AllSchemaNodes(db, order, view_nodes) ==
    IF order = <<>> THEN view_nodes
    ELSE LET schema_name == Head(order)
             node_rows == DbGetAllNodes(db, schema_name)
             ids == {row.id : row \in node_rows}
         IN AllSchemaNodes(db, Tail(order),
                [k \in (DOMAIN view_nodes) \cup ids |->
                    IF k \in ids
                    THEN CreateNode(schema_name, CHOOSE row \in node_rows : row.id = k)
                    ELSE view_nodes[k]])

RECURSIVE AllSchemaEdges(_, _, _)
\* Graph._all_schema_edges, the schemas taken in the given order
AllSchemaEdges(db, order, view_nodes) ==
    IF order = <<>> THEN <<>>
    ELSE LET schema_name == Head(order)
             edge_rows == DbGetAllEdges(db, schema_name)
         IN [i \in DOMAIN edge_rows |-> CreateEdge(view_nodes, schema_name, edge_rows[i])]
            \o AllSchemaEdges(db, Tail(order), view_nodes)

\* Graph._all_schema_edges raises KeyError: a stored edge of a schema found has
\* an endpoint that is no key of self.nodes
AllSchemaEdgesRaises(db, order, view_nodes) ==
    \E i \in DOMAIN order : \E j \in DOMAIN DbGetAllEdges(db, order[i]) :
        CreateEdgeRaises(view_nodes, DbGetAllEdges(db, order[i])[j])

\* Graph.__init__ over the store as committed: a new connection, a new view;
\* get_all_nodes of a name that has no tables raises OperationalError.  When
\* __init__ raises there is no new Graph, and the program keeps the one it has.
GraphInit(g) ==
    LET db == Conn(g.committed, g.committed)
        found == AllSchemas(db)
    IN IF \E s \in found : s \notin g.committed.tables
       THEN {[g EXCEPT !.last = Raised("init", "OperationalError")]}
       ELSE {LET loaded == AllSchemaNodes(db, order, nodes0)
             IN IF AllSchemaEdgesRaises(db, order, loaded)
                THEN [g EXCEPT !.last = Raised("init", "KeyError")]
                ELSE Outcome(db, found, loaded, AllSchemaEdges(db, order, loaded),
                             Returned("init", NoName, "", "", NoName, PyNone))
             : order \in Orders(found)}

\* Graph.get_node: self.nodes[node_id] raises KeyError for an id that is no key
GraphGetNode(g, node_id) ==
    IF node_id \notin DOMAIN g.nodes THEN [ok |-> FALSE, found |-> <<>>]
    ELSE [ok |-> TRUE, found |-> <<g.nodes[node_id]>>]

\* Graph.get_edge: the first edge of self.edges that __eq__ accepts, or None
GraphGetEdge(g, source, target) ==
    LET hits == SelectSeq(g.edges, LAMBDA e : EdgeEq(e, source, target))
    IN IF hits = <<>> THEN <<>> ELSE <<hits[1]>>

(***************************************************************************)
(* The program: a Graph over a new file, or over a store that earlier      *)
(* calls have filled, and then any calls.                                  *)
(***************************************************************************)
\* Graph(db_path) on a path that has no file yet
NewGraph == Outcome(Conn(EmptyStore, EmptyStore), {}, nodes0, <<>>, NoCall)

\* the one outcome of a call that has one
Only(outcomes) == CHOOSE o \in outcomes : TRUE

\* the Graph after add_schema("a"), add_schema("a_b"), add_node of n1 and n2 in
\* "a" and of n1 in "a_b"
SeededGraph ==
    LET g1 == Only(GraphAddSchema(NewGraph, SchemaA))
        g2 == Only(GraphAddSchema(g1, SchemaAB))
        g3 == Only(GraphAddNode(g2, SchemaA, Node(SchemaA, "n1", BodyX)))
        g4 == Only(GraphAddNode(g3, SchemaA, Node(SchemaA, "n2", BodyY)))
    IN Only(GraphAddNode(g4, SchemaAB, Node(SchemaAB, "n1", BodyX)))

Self ==
    [store |-> store, committed |-> committed, schemas |-> schemas, nodes |-> nodes,
     edges |-> edges, last |-> last]

\* the calls that only add one schema, node or edge
AddCalls == {"add_schema", "add_node", "add_edge"}

\* one more call on the Graph, with one of the outcomes it can have; only_adds
\* records that every call so far was one of AddCalls and returned
Becomes(outcomes) ==
    /\ calls < MaxCalls
    /\ calls' = calls + 1
    /\ \E o \in outcomes :
        /\ store' = o.store
        /\ committed' = o.committed
        /\ schemas' = o.schemas
        /\ nodes' = o.nodes
        /\ edges' = o.edges
        /\ last' = o.last
        /\ only_adds' = (only_adds /\ o.last.ok /\ o.last.op \in AddCalls)

Init ==
    /\ \E g \in {NewGraph, SeededGraph} :
          /\ store = g.store
          /\ committed = g.committed
          /\ schemas = g.schemas
          /\ nodes = g.nodes
          /\ edges = g.edges
    /\ last = NoCall
    /\ calls = 0
    /\ only_adds = TRUE

\* the lists of one to MaxBatch objects a bulk call is given
Batches(set) == UNION {[1..n -> set] : n \in 1..MaxBatch}

\* update_edge and delete_edge read the edge's schema and endpoint ids (and
\* update_edge its properties), whatever its endpoint schemas are
LocalEdges == {e \in CallerEdges : e.target_schema_name = e.schema_name}

AddSchema == \E s \in SchemaNames : Becomes(GraphAddSchema(Self, s))

AddNode == \E n \in CallerNodes : Becomes(GraphAddNode(Self, n.schema_name, n))

AddNodes ==
    \E s \in SchemaNames :
    \E b \in Batches({n \in CallerNodes : n.schema_name = s /\ n.body = BodyY}) :
        Becomes(GraphAddNodes(Self, s, b))

AddEdge == \E e \in CallerEdges \cup CrossEdges : Becomes(GraphAddEdge(Self, e))

AddEdges ==
    \E s \in SchemaNames :
    \E b \in Batches({e \in LocalEdges : e.schema_name = s /\ e.properties = PropW}) :
        Becomes(GraphAddEdges(Self, s, b))

UpdateNode == \E n \in CallerNodes : Becomes(GraphUpdateNode(Self, n))

UpdateEdge == \E e \in LocalEdges : Becomes(GraphUpdateEdge(Self, e))

DeleteSchema == \E s \in SchemaNames : Becomes(GraphDeleteSchema(Self, s))

DeleteNode == \E n \in {m \in CallerNodes : m.body = BodyX} : Becomes(GraphDeleteNode(Self, n))

DeleteEdge ==
    \E e \in {d \in LocalEdges : d.properties = PyNone} : Becomes(GraphDeleteEdge(Self, e))

Reopen == Becomes(GraphInit(Self))

Next ==
    \/ AddSchema
    \/ AddNode
    \/ AddNodes
    \/ AddEdge
    \/ AddEdges
    \/ UpdateNode
    \/ UpdateEdge
    \/ DeleteSchema
    \/ DeleteNode
    \/ DeleteEdge
    \/ Reopen

Spec == Init /\ [][Next]_vars

(***************************************************************************)
(* The view after a call that returned.                                    *)
(***************************************************************************)
Mutating ==
    {"add_schema", "add_node", "add_nodes", "add_edge", "add_edges", "update_node",
     "update_edge", "delete_schema", "delete_node", "delete_edge"}

\* the row of the node the last call named, as the store has it now
LastNodeRow == SqlSelectNode(store, last.schema_name, last.source)

\* the rows of the edge the last call named, as the store has them now
LastEdgeRows == SqlSelectEdge(store, last.schema_name, last.source, last.target)

\* the view holds the node row the last call wrote, with the stored values
WrittenNodeCached ==
    /\ LastNodeRow # <<>>
    /\ last.source \in DOMAIN nodes
    /\ nodes[last.source] = CreateNode(last.schema_name, LastNodeRow[1])

\* the view holds an edge for the edge row the last call wrote, with the
\* stored properties
WrittenEdgeCached ==
    \E i \in DOMAIN edges :
        /\ edges[i].schema_name = last.schema_name
        /\ edges[i].source.id = last.source
        /\ edges[i].target.id = last.target
        /\ edges[i].properties = JsonLoads(SqlJson(JsonDumps(last.value)))

\* the view holds no node and no edge of the schema the last call dropped
DroppedSchemaGone ==
    /\ last.schema_name \notin schemas
    /\ \A k \in DOMAIN nodes : nodes[k].schema_name # last.schema_name
    /\ \A i \in DOMAIN edges : edges[i].schema_name # last.schema_name

\* the view holds no edge for the edge rows the last call deleted
DeletedEdgeGone ==
    \A i \in DOMAIN edges :
        ~ /\ edges[i].schema_name = last.schema_name
          /\ edges[i].source.id = last.source
          /\ edges[i].target.id = last.target

\* C1: after any mutating Graph call that returned, the view reflects exactly
\* the rows the call wrote or removed: a schema created is in schemas, a node
\* row written is cached under its id with the stored body, an edge row written
\* has a cached edge with the stored properties, and a node, an edge or a
\* schema removed has no cached entry left.
C1_ViewReflectsCall ==
    (last.ok /\ last.op \in Mutating) =>
        /\ last.op = "add_schema" => last.schema_name \in schemas
        /\ last.op \in {"add_node", "update_node"} => WrittenNodeCached
        /\ last.op \in {"add_edge", "update_edge"} => WrittenEdgeCached
        /\ last.op = "delete_node" => last.source \notin DOMAIN nodes
        /\ last.op = "delete_edge" => DeletedEdgeGone
        /\ last.op = "delete_schema" => DroppedSchemaGone

\* a delete_schema has returned and a node of the dropped schema is still cached
C1_DroppedSchemaNodeCached ==
    /\ last.ok
    /\ last.op = "delete_schema"
    /\ \E k \in DOMAIN nodes : nodes[k].schema_name = last.schema_name

(***************************************************************************)
(* A new Graph over the same store.                                        *)
(***************************************************************************)
\* C2: after any sequence of add_schema, add_node and add_edge calls that all
\* returned, constructing a new Graph over the same store succeeds and yields
\* the schema set, the number of nodes and the number of edges the live Graph
\* holds.
C2_ReopenAgrees ==
    only_adds =>
        \A o \in GraphInit(Self) :
            /\ o.last.ok
            /\ o.schemas = schemas
            /\ Cardinality(DOMAIN o.nodes) = Cardinality(DOMAIN nodes)
            /\ Len(o.edges) = Len(edges)

\* after such calls only, an add_edge has returned and a new Graph over the
\* store finds the name "a" alone although the live Graph has "a" and "a_b"
C2_ReopenLosesSchema ==
    /\ only_adds
    /\ last.op = "add_edge"
    /\ schemas = {SchemaA, SchemaAB}
    /\ \E o \in GraphInit(Self) : o.last.ok /\ o.schemas = {SchemaA}

(***************************************************************************)
(* Calls that raise.                                                       *)
(***************************************************************************)
Bulk == {"add_nodes", "add_edges"}

\* C3: a bulk insert is atomic: when add_nodes or add_edges raises, the store
\* as the connection reads it right after the call holds no row of the batch,
\* it is the store of before the call.
C3_BulkAtomic ==
    [][(last'.op \in Bulk /\ ~last'.ok) => store' = store]_vars

\* an add_nodes has raised, and the connection reads a node row that is not
\* committed
C3_PartialBatchVisible ==
    /\ last.op = "add_nodes"
    /\ ~last.ok
    /\ \E s \in SchemaNames : store.nodes[s] # committed.nodes[s]

\* C4: a call other than the two bulk inserts that raises leaves the store and
\* the view as they were: no call raises after it has changed the store.
C4_AllOrNothing ==
    [][(last'.op \in Mutating \ Bulk /\ ~last'.ok) =>
          /\ store' = store
          /\ schemas' = schemas
          /\ nodes' = nodes
          /\ edges' = edges]_vars

\* a delete_node has raised KeyError, having deleted its row from the store
C4_RaisedAfterDelete ==
    /\ last.op = "delete_node"
    /\ last.err = "KeyError"
    /\ \E s \in SchemaNames : \E i \in NodeIds :
          committed.nodes[s][i] = NoText /\ s \in committed.tables /\ i \notin DOMAIN nodes

(***************************************************************************)
(* Where the cached values come from.                                      *)
(***************************************************************************)
\* the edge a call appended last was built from a row the store has for the
\* call's schema, source and target
LastEdgeFromStore ==
    /\ edges # <<>>
    /\ \E j \in DOMAIN LastEdgeRows :
          edges[Len(edges)] = CreateEdge(nodes, last.schema_name, LastEdgeRows[j])

\* each node of the batch the last call wrote is cached as built from its row
BatchFromStore ==
    \A i \in DOMAIN last.value :
        LET node_rows == SqlSelectNode(store, last.schema_name, last.value[i].id)
        IN /\ node_rows # <<>>
           /\ last.value[i].id \in DOMAIN nodes
           /\ nodes[last.value[i].id] = CreateNode(last.schema_name, node_rows[1])

\* C5: every mutating Graph call but add_edges caches what it re-read from the
\* store after its Database call, never the caller's object: after add_node,
\* update_node and add_nodes each node written is cached as built from its
\* stored row, after add_edge and update_edge the edge cached is built from a
\* stored row of that source and target.
C5_CachedFromStore ==
    last.ok =>
        /\ last.op \in {"add_node", "update_node"} => WrittenNodeCached
        /\ last.op \in {"add_edge", "update_edge"} => LastEdgeFromStore
        /\ last.op = "add_nodes" => BatchFromStore

\* an add_nodes has returned and a node of the batch is cached with a body
\* that differs from the body its stored row gives
C5_CallerNodeCached ==
    /\ last.ok
    /\ last.op = "add_nodes"
    /\ \E i \in DOMAIN last.value :
          /\ last.value[i].id \in DOMAIN nodes
          /\ nodes[last.value[i].id] = last.value[i]
          /\ nodes[last.value[i].id].body
                # JsonLoads(SqlSelectNode(store, last.schema_name, last.value[i].id)[1].body)

(***************************************************************************)
(* Edge rows: the unique key and the foreign keys.                         *)
(***************************************************************************)
\* the row Database.add_edge writes for a caller's edge
RowOf(e) ==
    EdgeRow(e.source.id, e.source_schema_name, e.target.id, e.target_schema_name,
            SqlJson(JsonDumps(e.properties)))

\* Database.add_edge for a caller's edge, on the Graph's connection
AddEdgeNow(e) ==
    DbAddEdge(Conn(store, committed), e.schema_name, e.source.id, e.target.id,
              e.source_schema_name, e.target_schema_name, e.properties)

\* how many rows of the sequence equal the row
Count(rows, row) == Len(SelectSeq(rows, LAMBDA r : r = row))

\* both endpoints of the edge have their node rows
EndpointsStored(e) ==
    /\ HasNode(store, e.source_schema_name, e.source.id)
    /\ HasNode(store, e.target_schema_name, e.target.id)

C7_SecondEdgeRaises ==
    \A e \in CallerEdges :
        (/\ e.schema_name \in store.tables
         /\ SqlSelectEdge(store, e.schema_name, e.source.id, e.target.id) # <<>>) =>
            /\ ~AddEdgeNow(e).ok
            /\ AddEdgeNow(e).db.st = store

\* an edge table holds two rows of the same source and target
C7_TwoRowsSameEnds ==
    \E s \in SchemaNames : \E i, j \in DOMAIN store.edges[s] :
        /\ i < j
        /\ store.edges[s][i].source = store.edges[s][j].source
        /\ store.edges[s][i].target = store.edges[s][j].target

C9_NodeRoundTrip ==
    (last.op = "add_node" /\ last.ok) =>
        LET stored == DbGetNode(Conn(store, committed), last.schema_name, last.source)
            cached == GraphGetNode(Self, last.source)
        IN /\ stored # <<>>
           /\ stored[1].id = last.source
           /\ JsonLoads(stored[1].body) = JsonLoads(JsonDumps(last.value))
           /\ cached.ok
           /\ cached.found[1].id = last.source
           /\ cached.found[1].body = JsonLoads(JsonDumps(last.value))

\* an add_node of a body that json changes (an int key) has returned
C9_AddedIntKeyBody ==
    /\ last.op = "add_node"
    /\ last.ok
    /\ last.value = BodyY
    /\ JsonLoads(JsonDumps(BodyY)) # BodyY
    /\ nodes[last.source].body # BodyY

\* Graph.get_edge(source, target) on the view, by endpoint ids
GetEdgeNow(view_edges, source_id, target_id) ==
    GraphGetEdge([edges |-> view_edges], [id |-> source_id], [id |-> target_id])

C12_UpdateAbsentNoOp ==
    \A n \in CallerNodes :
        (n.schema_name \in store.tables /\ ~HasNode(store, n.schema_name, n.id)) =>
            /\ DbUpdateNode(Conn(store, committed), n.schema_name, n.id, n.body).ok
            /\ DbUpdateNode(Conn(store, committed), n.schema_name, n.id, n.body).db.st = store
            /\ \A o \in GraphUpdateNode(Self, n) :
                  /\ o.last.ok
                  /\ o.store = store
                  /\ o.nodes = nodes

\* an update_node for an id without a row has raised TypeError
C12_UpdateAbsentRaised ==
    /\ last.op = "update_node"
    /\ last.err = "TypeError"
    /\ store.tables = SchemaNames

(***************************************************************************)
(* update_edge.                                                            *)
(***************************************************************************)
\* the cached edges of the last call's schema, source id and target id
LastCachedEdges ==
    SelectSeq(edges, LAMBDA e : /\ e.schema_name = last.schema_name
                                /\ e.source.id = last.source
                                /\ e.target.id = last.target)

\* C13: after Graph.update_edge(edge) of an edge that has a row has returned,
\* the stored rows of (edge.schema_name, source id, target id) and the cached
\* edges of that schema, source and target all carry edge.properties, and
\* there is such a row and such a cached edge.
C13_UpdateEdgeSetsProperties ==
    (last.op = "update_edge" /\ last.ok) =>
        /\ LastEdgeRows # <<>>
        /\ \A j \in DOMAIN LastEdgeRows :
              LastEdgeRows[j].properties = SqlJson(JsonDumps(last.value))
        /\ LastCachedEdges # <<>>
        /\ \A i \in DOMAIN LastCachedEdges :
              LastCachedEdges[i].properties = JsonLoads(JsonDumps(last.value))

\* an update_edge has returned and a cached edge of its schema, source and
\* target still has other properties
C13_StaleEdgeKept ==
    /\ last.op = "update_edge"
    /\ last.ok
    /\ \E i \in DOMAIN LastCachedEdges :
          LastCachedEdges[i].properties # JsonLoads(JsonDumps(last.value))

(***************************************************************************)
(* delete_node, delete_edge.                                               *)
(***************************************************************************)
\* C14: after Graph.delete_node(node) has returned, the store's
\* get_node(node.schema_name, node.id) finds no row and the view's nodes has
\* no entry for node.id.
C14_DeletedNodeAbsent ==
    (last.op = "delete_node" /\ last.ok) =>
        /\ DbGetNode(Conn(store, committed), last.schema_name, last.source) = <<>>
        /\ last.source \notin DOMAIN nodes

\* a delete_node of n1 of schema "a_b", which had a row and was cached, has
\* returned as the first call
C14_NodeDeleted ==
    /\ last.op = "delete_node"
    /\ last.ok
    /\ last.schema_name = SchemaAB
    /\ last.source = "n1"
    /\ calls = 1
    /\ store.nodes[SchemaA]["n1"] # NoText

\* C16: after Graph.delete_edge(edge) has returned, the view's edge list has
\* no edge whose source id and target id are those of the deleted edge,
\* whatever add_edge, add_edges and update_edge calls came before.
C16_DeletedEdgeAbsent ==
    (last.op = "delete_edge" /\ last.ok) =>
        GetEdgeNow(edges, last.source, last.target) = <<>>

\* a delete_edge has returned and get_edge still finds an edge of its source
\* and target
C16_EdgeLeftAfterDelete ==
    /\ last.op = "delete_edge"
    /\ last.ok
    /\ GetEdgeNow(edges, last.source, last.target) # <<>>

(***************************************************************************)
(* Schemas and node ids.                                                   *)
(***************************************************************************)
\* C17: add_schema is idempotent: add_schema of a name whose tables exist
\* raises no error, leaves the tables and the rows in them as they are, and
\* leaves the Graph's schema set with the name in it, once.
C17_AddSchemaIdempotent ==
    \A s \in store.tables :
        \A o \in GraphAddSchema(Self, s) :
            /\ o.last.ok
            /\ o.store = store
            /\ o.schemas = schemas \cup {s}
            /\ Cardinality({t \in o.schemas : t = s}) = 1

\* add_schema("a") has returned a second time, the rows of "a" still there
C17_SchemaAddedAgain ==
    /\ last.op = "add_schema"
    /\ last.ok
    /\ last.schema_name = SchemaA
    /\ calls = 1
    /\ store = SeededGraph.store
    /\ schemas = SeededGraph.schemas

\* C18: a node id is unique per schema: add_node of an id that has a row in
\* the schema raises the constraint error, the row keeps its body and the
\* view is as it was.
C18_DuplicateIdRejected ==
    \A n \in CallerNodes :
        HasNode(store, n.schema_name, n.id) =>
            \A o \in GraphAddNode(Self, n.schema_name, n) :
                /\ ~o.last.ok
                /\ o.last.err = "IntegrityError"
                /\ o.store = store
                /\ o.nodes = nodes
                /\ o.edges = edges

\* an add_node has raised the constraint error
C18_AddNodeRejected ==
    /\ last.op = "add_node"
    /\ last.err = "IntegrityError"
    /\ \E n \in CallerNodes : HasNode(store, n.schema_name, n.id)

(***************************************************************************)
(* The Database called directly: the store changes, no Graph looks on.     *)
(***************************************************************************)
\* the store of SeededGraph after add_edge("a", "n1", "n2") and
\* add_edge("a", "n2", "n2") on its Database
EdgesStored ==
    LET d1 == DbAddEdge(Conn(SeededGraph.store, SeededGraph.committed), SchemaA,
                        "n1", "n2", NoName, NoName, PyNone).db
        d2 == DbAddEdge(d1, SchemaA, "n2", "n2", NoName, NoName, PyNone).db
    IN [SeededGraph EXCEPT !.store = d2.st, !.committed = d2.dur]

InitDb ==
    /\ \E g \in {SeededGraph, EdgesStored} :
          /\ store = g.store
          /\ committed = g.committed
          /\ schemas = g.schemas
          /\ nodes = g.nodes
          /\ edges = g.edges
    /\ last = NoCall
    /\ calls = 0
    /\ only_adds = FALSE

\* one more call on the Database, r what it gave
DbBecomes(r, result) ==
    /\ calls < MaxCalls
    /\ calls' = calls + 1
    /\ store' = r.db.st
    /\ committed' = r.db.dur
    /\ last' = result
    /\ UNCHANGED <<schemas, nodes, edges, only_adds>>

\* operator arguments: "or", "and", "AND", "not", "xor"
Operators ==
    {<<"o", "r">>, <<"a", "n", "d">>, <<"A", "N", "D">>, <<"n", "o", "t">>, <<"x", "o", "r">>}

\* node_body arguments: none, {"x": 1}, {"y": "v w"}, {"y": "v w", 2: 1}
QueryBodies == {PyNone, BodyX, PyDict(<< <<PyStr("y"), PyStr("v w")>> >>), BodyY}

\* a schema name as no identifier is written: " a_b"
BlankAB == <<" ">> \o SchemaAB

\* nodes a caller passes under that name
UncheckedNodes == {Node(BlankAB, i, BodyX) : i \in NodeIds}

DatabaseAddNode ==
    \E n \in CallerNodes \cup UncheckedNodes :
        LET r == DbAddNode(Conn(store, committed), n.schema_name, n.id, n.body)
        IN DbBecomes(r, IF r.ok
                        THEN Returned("Database.add_node", n.schema_name, n.id, "", NoName, n.body)
                        ELSE Raised("Database.add_node", r.err))

DatabaseUpdateNode ==
    \E n \in CallerNodes :
        LET r == DbUpdateNode(Conn(store, committed), n.schema_name, n.id, n.body)
        IN DbBecomes(r, IF r.ok
                        THEN Returned("Database.update_node", n.schema_name, n.id, "", NoName, n.body)
                        ELSE Raised("Database.update_node", r.err))

DatabaseAddEdge ==
    \E s \in SchemaNames : \E source_id, target_id \in NodeIds : \E p \in Properties :
        LET r == DbAddEdge(Conn(store, committed), s, source_id, target_id, NoName, NoName, p)
        IN DbBecomes(r, IF r.ok
                        THEN Returned("Database.add_edge", s, source_id, target_id, NoName, p)
                        ELSE Raised("Database.add_edge", r.err))

DatabaseDeleteEdges ==
    \E s \in SchemaNames : \E id \in NodeIds :
        LET r == DbDeleteEdges(Conn(store, committed), s, id)
        IN DbBecomes(r, IF r.ok
                        THEN Returned("Database.delete_edges", s, id, "", NoName, PyNone)
                        ELSE Raised("Database.delete_edges", r.err))

DatabaseGetNodes ==
    \E s \in SchemaNames : \E id \in NodeIds \cup {NoId} : \E b \in QueryBodies :
    \E operator \in Operators :
        LET r == DbGetNodes(Conn(store, committed), s, id, b, operator)
        IN DbBecomes([db |-> Conn(store, committed)],
                     IF r.ok
                     THEN Returned("Database.get_nodes", s, id, "", NoName,
                                   [node_body |-> b, operator |-> operator, rows |-> r.rows])
                     ELSE Raised("Database.get_nodes", r.err))

NextDb ==
    \/ DatabaseAddNode
    \/ DatabaseUpdateNode
    \/ DatabaseAddEdge
    \/ DatabaseDeleteEdges
    \/ DatabaseGetNodes

SpecDb == InitDb /\ [][NextDb]_vars

\* the row has the id as its source or as its target
Touches(row, id) == row.source = id \/ row.target = id

\* C15: after Database.delete_edges(schema_name, id) returned, no edge row of
\* the schema has the id as source or target, the rows of the schema that
\* have it as neither are kept in their order, and the edge rows of the
\* other schemas and all node rows are as before
C15_DeleteEdgesRemovesTouching ==
    [][(last'.op = "Database.delete_edges" /\ last'.ok) =>
          /\ \A j \in DOMAIN store'.edges[last'.schema_name] :
                ~Touches(store'.edges[last'.schema_name][j], last'.source)
          /\ store'.edges[last'.schema_name] =
                SelectSeq(store.edges[last'.schema_name],
                          LAMBDA r : ~Touches(r, last'.source))
          /\ \A s \in SchemaNames \ {last'.schema_name} : store'.edges[s] = store.edges[s]
          /\ store'.nodes = store.nodes
          /\ committed' = store']_vars

\* C15 witness: delete_edges("a", "n1") returned on the store that held
\* n1 -> n2 and n2 -> n2, and n2 -> n2 alone is left
C15_EdgesOfN1Deleted ==
    /\ calls = 1
    /\ last.op = "Database.delete_edges" /\ last.ok
    /\ last.schema_name = SchemaA /\ last.source = "n1"
    /\ Len(store.edges[SchemaA]) = 1
    /\ store.edges[SchemaA][1].source = "n2" /\ store.edges[SchemaA][1].target = "n2"
    /\ committed = store

\* the node rows of the schema with the id
WithId(schema_name, node_id) ==
    {row \in SqlSelectAllNodes(store, schema_name) : row.id = node_id}

\* the node rows of the schema whose body text holds the search text made of
\* node_body
WithBody(schema_name, node_body) ==
    {row \in SqlSelectAllNodes(store, schema_name) : Like(row.body, JsonSearch(node_body))}

\* the last call was get_nodes with a node_id, a node_body and the operator,
\* and it returned
GotNodesBy(operator) ==
    /\ last.op = "Database.get_nodes" /\ last.ok
    /\ last.source # NoId /\ last.value.node_body # PyNone
    /\ last.value.operator = operator

\* C19: get_nodes with a node_id, a node_body and operator "and" returns the
\* rows that satisfy both the id predicate and the body predicate; with "or"
\* it returns the rows that satisfy either
C19_AndIntersectsOrUnites ==
    /\ GotNodesBy(<<"a", "n", "d">>) =>
          last.value.rows = WithId(last.schema_name, last.source)
                               \cap WithBody(last.schema_name, last.value.node_body)
    /\ GotNodesBy(<<"o", "r">>) =>
          last.value.rows = WithId(last.schema_name, last.source)
                               \cup WithBody(last.schema_name, last.value.node_body)

\* C19 witness: get_nodes("a", "n1", {"y": "v w"}, "and") returned no row
\* while n1 has the id and n2 has the body
C19_AndGaveNoRow ==
    /\ GotNodesBy(<<"a", "n", "d">>)
    /\ last.schema_name = SchemaA /\ last.source = "n1"
    /\ last.value.rows = {}
    /\ WithId(SchemaA, "n1") # {}
    /\ WithBody(SchemaA, last.value.node_body) # {}

\* C20: get_nodes with an operator whose lower case is none of and, or, not
\* raises DisallowedOperatorError, also on a schema without tables (where a
\* statement would fail), and the call leaves the store as it was; an
\* operator whose lower case is allowed is not refused
C20_OperatorChecked ==
    /\ [](\A s \in SchemaNames \cup {<<"z">>} : \A id \in NodeIds \cup {NoId} :
          \A b \in QueryBodies : \A operator \in Operators :
             LET r == DbGetNodes(Conn(store, committed), s, id, b, operator)
             IN IF Lower(operator) \in ALLOWED_OPERATORS
                THEN r.err # "DisallowedOperatorError"
                ELSE ~r.ok /\ r.err = "DisallowedOperatorError")
    /\ [][last'.op = "Database.get_nodes" => store' = store /\ committed' = committed]_vars

\* C20 witness: a get_nodes call was refused for its operator
C20_OperatorRefused ==
    /\ last.op = "Database.get_nodes" /\ ~last.ok
    /\ last.err = "DisallowedOperatorError"

\* the canonical compact form of a filter: the minified JSON text without its
\* outer braces
Compact(node_body) ==
    LET text == SqlJson(JsonDumps(node_body))
    IN SubSeq(text, 2, Len(text) - 1)

\* the last call was get_nodes with a node_body and no node_id, and it returned
GotNodesByBody ==
    /\ last.op = "Database.get_nodes" /\ last.ok
    /\ last.source = NoId /\ last.value.node_body # PyNone

\* C21: get_nodes with a body filter returns exactly the rows whose stored
\* text holds the compact form of the filter, whether the filter has one key
\* or several
C21_BodyFilterIsCompactSubstring ==
    GotNodesByBody =>
        last.value.rows =
            {row \in SqlSelectAllNodes(store, last.schema_name) :
                Like(row.body, Compact(last.value.node_body))}

\* C21 witness: get_nodes("a", node_body = {"y": "v w", 2: 1}) returned no
\* row although the text of n2 holds the compact form of the filter
C21_TwoKeyFilterMissesRow ==
    /\ GotNodesByBody
    /\ last.schema_name = SchemaA /\ last.value.node_body = BodyY
    /\ last.value.rows = {}
    /\ Like(store.nodes[SchemaA]["n2"], Compact(BodyY))

(***************************************************************************)
(* The Database given arbitrary SQL text.                                  *)
(***************************************************************************)
\* sql_text arguments: statements with and without their semicolon, one that
\* names a missing table, one that is no SQL
SqlTexts ==
    {<<"SELECT", "'test'", ";">>, <<"SELECT", "'test'">>,
     <<"DELETE", "FROM", "a_edges", ";">>, <<"DELETE", "FROM", "a_edges">>,
     <<"DELETE", "FROM", "z_edges", ";">>, <<"nonsense", ";">>, <<>>}

\* what a call on arbitrary text leaves in last
SqlResult(op, sql_text, r) ==
    IF r.ok
    THEN Returned(op, <<>>, "", "", NoName,
                  [sql_text |-> sql_text, result |-> r.value, printed |-> r.printed])
    ELSE Raised(op, r.err)

DatabaseExecuteSql ==
    \E sql_text \in SqlTexts :
        LET r == DbExecuteSql(Conn(store, committed), sql_text)
        IN DbBecomes(r, SqlResult("Database.execute_sql", sql_text, r))

DatabaseExecuteSqlScript ==
    \E sql_text \in SqlTexts :
        LET r == DbExecuteSqlScript(Conn(store, committed), sql_text)
        IN DbBecomes(r, SqlResult("Database.execute_sql_script", sql_text, r))

\* {2: 1}
PropInt == PyDict(<< <<PyInt("2"), PyInt("1")>> >>)

\* properties arguments of get_edges
QueryProperties == {PyNone, PropW, PropInt}

DatabaseGetEdges ==
    \E s \in SchemaNames : \E source_id, target_id \in NodeIds \cup {NoId} :
    \E p \in QueryProperties :
        LET r == DbGetEdges(Conn(store, committed), s, source_id, target_id, p)
        IN DbBecomes([db |-> Conn(store, committed)],
                     IF r.ok
                     THEN Returned("Database.get_edges", s, source_id, target_id, NoName,
                                   [properties |-> p, rows |-> r.rows])
                     ELSE Raised("Database.get_edges", r.err))

NextSql ==
    \/ DatabaseExecuteSql
    \/ DatabaseExecuteSqlScript
    \/ DatabaseAddEdge
    \/ DatabaseGetEdges

SpecSql == InitDb /\ [][NextSql]_vars

\* C22: execute_sql and execute_sql_script raise IncompleteStatementError for
\* every text that does not end a statement with its semicolon, and the call
\* leaves the store, pending and committed, as it was, also where the engine
\* would have run the text
C22_IncompleteTextRefused ==
    /\ [](\A sql_text \in SqlTexts : ~CompleteStatement(sql_text) =>
             \A r \in {DbExecuteSql(Conn(store, committed), sql_text),
                       DbExecuteSqlScript(Conn(store, committed), sql_text)} :
                 /\ ~r.ok /\ r.err = "IncompleteStatementError"
                 /\ r.db = Conn(store, committed))
    /\ [][(~last'.ok /\ last'.err = "IncompleteStatementError") =>
             store' = store /\ committed' = committed]_vars

\* C22 witness: execute_sql raised IncompleteStatementError on a store whose
\* edge rows the unterminated DELETE would have removed
C22_UnterminatedRefused ==
    /\ last.op = "Database.execute_sql"
    /\ ~last.ok /\ last.err = "IncompleteStatementError"
    /\ store.edges[SchemaA] # <<>>
    /\ SqlExecuteText(store, <<"DELETE", "FROM", "a_edges">>).st # store

\* the last call was execute_sql or execute_sql_script
RanSqlText == last.op \in {"Database.execute_sql", "Database.execute_sql_script"}

\* C23: when the engine reports an error for a complete text given to
\* execute_sql or execute_sql_script, the call fails: no call returns after
\* an engine error
C23_EngineErrorSurfaced ==
    (RanSqlText /\ last.ok) => last.value.printed = ""

\* C23 witness: execute_sql("DELETE FROM z_edges;") returned None, the
\* engine's OperationalError printed
C23_EngineErrorPrinted ==
    /\ last.op = "Database.execute_sql" /\ last.ok
    /\ last.value.sql_text = <<"DELETE", "FROM", "z_edges", ";">>
    /\ last.value.printed = "OperationalError"
    /\ last.value.result = ReturnsNone

\* C24: an edge of the view equals a (source, target) pair of nodes exactly
\* when the ids of its endpoints are the ids of the pair, whatever the
\* schemas, bodies and properties; get_edge finds an edge exactly when the
\* view has one with these ids
C24_EdgeEqualityByEndpointIds ==
    \A source, target \in CallerNodes :
        /\ \A i \in DOMAIN edges :
              EdgeEq(edges[i], source, target)
                 <=> (edges[i].source.id = source.id /\ edges[i].target.id = target.id)
        /\ (GraphGetEdge(Self, source, target) # <<>>)
              <=> \E i \in DOMAIN edges :
                     edges[i].source.id = source.id /\ edges[i].target.id = target.id

\* C24 witness: the view holds an edge with properties that equals a pair of
\* nodes of other schemas than its endpoints
C24_EqualAcrossSchemas ==
    \E i \in DOMAIN edges : \E source, target \in CallerNodes :
        /\ EdgeEq(edges[i], source, target)
        /\ edges[i].properties # PyNone
        /\ source.schema_name # edges[i].source_schema_name
        /\ target.schema_name # edges[i].target_schema_name
        /\ GraphGetEdge(Self, source, target) = <<edges[i]>>

\* the row an add_edge call has written: the last row of the edge table
WrittenRow(st, schema_name) == st.edges[schema_name][Len(st.edges[schema_name])]

\* C25: when add_edge returns for an edge whose source node is of one schema
\* and whose target node is of another, the row written has the source
\* node's schema as source_schema and the target node's schema as
\* target_schema, and these are the edge's source_schema_name and
\* target_schema_name
C25_CrossSchemaRowNamesNodeSchemas ==
    \A edge \in {e \in CrossEdges : e.source.schema_name # e.target.schema_name} :
        \A o \in GraphAddEdge(Self, edge) :
            o.last.ok =>
                LET row == WrittenRow(o.store, edge.schema_name)
                IN /\ row.source_schema = edge.source.schema_name
                   /\ row.target_schema = edge.target.schema_name
                   /\ row.source_schema = edge.source_schema_name
                   /\ row.target_schema = edge.target_schema_name

\* C25 witness: add_edge of Edge("a", n2 of "a", n1) returned with the row
\* written naming "a" as the schema of its target, and n1 is a node of "a_b"
\* too: for the caller's target Node("a_b", "n1") the row names the wrong
\* schema
C25_TargetSchemaDefaulted ==
    /\ last.op = "add_edge" /\ last.ok
    /\ last.schema_name = SchemaA /\ last.source = "n2" /\ last.target = "n1"
    /\ WrittenRow(store, SchemaA).target = "n1"
    /\ WrittenRow(store, SchemaA).target_schema = SchemaA
    /\ store.nodes[SchemaAB]["n1"] # NoText
    /\ \E edge \in CrossEdges :
          /\ edge.schema_name = SchemaA /\ edge.target.schema_name = SchemaAB
          /\ edge.source.id = "n2" /\ edge.target.id = "n1"
          /\ Returned("add_edge", edge.schema_name, edge.source.id, edge.target.id,
                      edge.target_schema_name, edge.properties) = last

\* the JSON text null
NullText == <<[t |-> "null", v |-> "null"]>>

\* C26: after Database.add_edge(schema, source, target) with no endpoint
\* schema and no properties, the row written is (source, schema, target,
\* schema, null), and get_all_edges(schema) gives exactly this row when the
\* table had none
C26_DefaultsStored ==
    [][(last'.op = "Database.add_edge" /\ last'.ok /\ last'.value = PyNone) =>
          LET all == DbGetAllEdges(Conn(store', committed'), last'.schema_name)
              row == EdgeRow(last'.source, last'.schema_name,
                             last'.target, last'.schema_name, NullText)
          IN /\ all # <<>> /\ all[Len(all)] = row
             /\ store.edges[last'.schema_name] = <<>> => all = <<row>>
             /\ committed' = store']_vars

\* C26 witness: add_edge("a", "n1", "n2") on a table without rows, and
\* get_all_edges("a") is the one row (n1, a, n2, a, null)
C26_OneDefaultRow ==
    /\ calls = 1
    /\ last.op = "Database.add_edge" /\ last.ok /\ last.value = PyNone
    /\ last.schema_name = SchemaA /\ last.source = "n1" /\ last.target = "n2"
    /\ DbGetAllEdges(Conn(store, committed), SchemaA)
          = <<EdgeRow("n1", SchemaA, "n2", SchemaA, NullText)>>

\* C27: after Graph construction over an existing store, the view's schema
\* set is the set of the schema names that have their two tables, also for
\* names with an underscore in them
C27_SchemasDiscovered ==
    (last.op = "init" /\ last.ok) => schemas = committed.tables

\* C27 witness: a Graph was constructed over a store with the tables of "a"
\* and of "a_b", and its schema set lacks "a_b"
C27_UnderscoreNameLost ==
    /\ last.op = "init" /\ last.ok
    /\ committed.tables = {SchemaA, SchemaAB}
    /\ schemas = {SchemaA}

\* C28: Graph construction over a store with an edge row whose source or
\* target id is no key of the loaded node map does not end in a KeyError, and
\* when it returns no edge row of a schema found was skipped
C28_DanglingEdgeReported ==
    last.op = "init" =>
        /\ last.err # "KeyError"
        /\ last.ok =>
              \A s \in schemas : \A j \in DOMAIN committed.edges[s] :
                  \E i \in DOMAIN edges :
                      /\ edges[i].schema_name = s
                      /\ edges[i].source.id = committed.edges[s][j].source
                      /\ edges[i].target.id = committed.edges[s][j].target

\* C28 witness: Graph construction raised KeyError over a store with an edge
\* row of "a" whose target has no row in a_nodes
C28_ConstructionRaisedKeyError ==
    /\ last.op = "init" /\ ~last.ok
    /\ last.err = "KeyError"
    /\ \E j \in DOMAIN committed.edges[SchemaA] :
          committed.nodes[SchemaA][committed.edges[SchemaA][j].target] = NoText

\* C29: Graph.get_node(node_id) returns the cached Node when node_id is a key
\* of the view and returns None, raising nothing, when it is not
C29_GetNodeNeverRaises ==
    \A node_id \in NodeIds :
        LET r == GraphGetNode(Self, node_id)
        IN /\ r.ok
           /\ r.found = IF node_id \in DOMAIN nodes THEN <<nodes[node_id]>> ELSE <<>>

\* C29 witness: delete_node returned, and get_node of the id deleted raises
C29_GetDeletedNodeRaises ==
    /\ last.op = "delete_node" /\ last.ok
    /\ last.source \notin DOMAIN nodes
    /\ ~GraphGetNode(Self, last.source).ok

\* the characters of the identifier pattern: letters, digits, underscore
IdentifierChars ==
    {"a", "b", "c", "d", "e", "f", "g", "h", "i", "j", "k", "l", "m", "n", "o", "p", "q",
     "r", "s", "t", "u", "v", "w", "x", "y", "z", "0", "1", "2", "3", "4", "5", "6", "7",
     "8", "9", "_"}

AllowedName(name) == \A i \in DOMAIN name : name[i] \in IdentifierChars

\* C30: a Database call given a schema name outside the identifier pattern is
\* rejected and leaves the store as it was: no such call returns, and
\* add_node under such a name changes nothing
C30_BadSchemaNameRejected ==
    /\ (last.ok /\ last.op = "Database.add_node") => AllowedName(last.schema_name)
    /\ \A n \in UncheckedNodes :
          LET r == DbAddNode(Conn(store, committed), n.schema_name, n.id, n.body)
          IN ~r.ok /\ r.db = Conn(store, committed)

\* C30 witness: add_node(" a_b", "n2", {"x": 1}) returned and a_b_nodes has
\* the row of n2
C30_BlankNameWritten ==
    /\ calls = 1
    /\ last.op = "Database.add_node" /\ last.ok
    /\ last.schema_name = BlankAB /\ ~AllowedName(last.schema_name)
    /\ last.source = "n2"
    /\ store.nodes[SchemaAB]["n2"] = SqlJson(JsonDumps(BodyX))
    /\ committed = store

\* what makes a cached edge the same edge across calls: its schema and the ids
\* of its endpoints
EdgeKey(e) == <<e.schema_name, e.source.id, e.target.id>>

EdgeKeys(edge_list) == {EdgeKey(edge_list[i]) : i \in DOMAIN edge_list}

\* the place of the first edge of the list with the key
FirstAt(edge_list, k) ==
    CHOOSE i \in DOMAIN edge_list :
        EdgeKey(edge_list[i]) = k /\ \A j \in 1..(i - 1) : EdgeKey(edge_list[j]) # k

EdgeCalls == {"add_edge", "add_edges", "update_edge", "delete_edge"}

\* C31: the view's edge list is in insertion order: an add_edge, add_edges,
\* update_edge or delete_edge call leaves the edges that were and still are
\* in the list in the order they had
C31_EdgesKeepInsertionOrder ==
    [][last'.op \in EdgeCalls =>
          \A k1, k2 \in EdgeKeys(edges) \cap EdgeKeys(edges') :
              FirstAt(edges, k1) < FirstAt(edges, k2)
                 => FirstAt(edges', k1) < FirstAt(edges', k2)]_vars

\* C31 witness: update_edge returned for the edge whose row is the first of
\* its table, and the view has it last, after an edge added later
C31_UpdatedEdgeMovedLast ==
    /\ last.op = "update_edge" /\ last.ok
    /\ Len(edges) = 2 /\ Len(store.edges[last.schema_name]) = 2
    /\ EdgeKey(edges[2]) = <<last.schema_name, last.source, last.target>>
    /\ EdgeKey(edges[1]) # EdgeKey(edges[2])
    /\ edges[1].schema_name = last.schema_name
    /\ store.edges[last.schema_name][1].source = last.source
    /\ store.edges[last.schema_name][1].target = last.target

\* the row satisfies one of the predicates supplied: source = source_id,
\* target = target_id, properties = properties (as JSON values)
SatisfiesOne(row, source_id, target_id, properties) ==
    \/ source_id # NoId /\ row.source = source_id
    \/ target_id # NoId /\ row.target = target_id
    \/ properties # PyNone /\ JsonLoads(row.properties) = JsonLoads(JsonDumps(properties))

\* C32: get_edges(schema, source_id, target_id, properties) with at least one
\* of the three supplied returns exactly the rows of the schema that satisfy
\* at least one of the supplied predicates
C32_GetEdgesOrJoined ==
    \A s \in SchemaNames : \A source_id, target_id \in NodeIds \cup {NoId} :
    \A p \in QueryProperties :
        (source_id # NoId \/ target_id # NoId \/ p # PyNone) =>
            LET r == DbGetEdges(Conn(store, committed), s, source_id, target_id, p)
            IN /\ r.ok
               /\ r.rows = SelectSeq(store.edges[s],
                                     LAMBDA row : SatisfiesOne(row, source_id, target_id, p))

\* C32 witness: get_edges raised OperationalError on a store where an edge
\* row of "a" has the properties {"w": 1} and get_edges("a", properties =
\* {"w": 1}) raises
C32_PropertiesFilterRaises ==
    /\ last.op = "Database.get_edges" /\ ~last.ok /\ last.err = "OperationalError"
    /\ \E j \in DOMAIN store.edges[SchemaA] :
          JsonLoads(store.edges[SchemaA][j].properties) = PropW
    /\ ~DbGetEdges(Conn(store, committed), SchemaA, NoId, NoId, PropW).ok

\* the cached edges, of any schema, with the source id and target id of the
\* last call
LastEndpointEdges ==
    SelectSeq(edges, LAMBDA e : e.source.id = last.source /\ e.target.id = last.target)

\* C33: after Graph.update_edge(edge) has returned, the view holds exactly one
\* edge with the source id and target id of edge, and it is the updated edge
\* as re-read: of edge's schema, with edge's properties
C33_OneEdgeAfterUpdate ==
    (last.op = "update_edge" /\ last.ok) =>
        /\ Len(LastEndpointEdges) = 1
        /\ LastEndpointEdges[1].schema_name = last.schema_name
        /\ LastEndpointEdges[1].properties = JsonLoads(JsonDumps(last.value))

\* C33 witness: after the same edge was added twice and then updated, the
\* store has one row of it and the view holds two edges with its endpoints, the first with the
\* properties from before the update
C33_TwoEdgesAfterUpdate ==
    /\ calls = 3
    /\ last.op = "update_edge" /\ last.ok
    /\ edges = LastEndpointEdges
    /\ Len(edges) = 2
    /\ edges[1].properties # JsonLoads(JsonDumps(last.value))
    /\ edges[2].properties = JsonLoads(JsonDumps(last.value))
    /\ Len(store.edges[last.schema_name]) = 1

\* the cached edges of a schema
EdgesOf(schema_name) == SelectSeq(edges, LAMBDA e : e.schema_name = schema_name)

\* C34: as long as every call was an add_schema, add_node or add_edge that
\* returned, the view holds, for each of its schemas, as many edges as the
\* schema's edge table has rows
C34_EdgeCountsAgree ==
    only_adds =>
        \A s \in schemas : Len(EdgesOf(s)) = Len(store.edges[s])

\* C34 witness: after two add_edge calls of an identical edge the view holds
\* two edges of the schema and the edge table one row
C34_TwoCachedOneRow ==
    /\ only_adds /\ calls = 2
    /\ last.op = "add_edge" /\ last.ok
    /\ Len(EdgesOf(last.schema_name)) = 2
    /\ edges[1] = edges[2]
    /\ Len(store.edges[last.schema_name]) = 1

\* C35: the edge Graph.add_edge appends to the view has the properties of the
\* row the call wrote, also when the table already has a row of the same
\* source and target with other properties
C35_AppendedEdgeHasWrittenProperties ==
    (last.op = "add_edge" /\ last.ok) =>
        /\ edges # <<>>
        /\ edges[Len(edges)].properties = JsonLoads(JsonDumps(last.value))

\* C35 witness: add_edge returned, the table has two rows of its source and
\* target, the row written last among them, and the edge appended has the
\* properties of the older row
C35_AppendedEdgeHasOlderProperties ==
    /\ last.op = "add_edge" /\ last.ok
    /\ Len(LastEdgeRows) = 2
    /\ LastEdgeRows[2].properties = SqlJson(JsonDumps(last.value))
    /\ WrittenRow(store, last.schema_name) = LastEdgeRows[2]
    /\ edges[Len(edges)].properties = JsonLoads(LastEdgeRows[1].properties)
    /\ edges[Len(edges)].properties # JsonLoads(JsonDumps(last.value))

\* C36: the view holds one node entry per stored node row: each row of a
\* schema of the view has its node in the view, with the row's schema, so
\* that two rows of one id in two schemas both have theirs
C36_EntryPerNodeRow ==
    \A s \in schemas \cap store.tables : \A i \in NodeIds :
        store.nodes[s][i] # NoText =>
            /\ i \in DOMAIN nodes
            /\ nodes[i].schema_name = s

\* C36 witness: delete_node of n1 of "a" returned while "a_b" holds a row of
\* n1 as well, and the view has no entry for n1 at all
C36_OtherSchemasNodeDropped ==
    /\ last.op = "delete_node" /\ last.ok
    /\ last.schema_name = SchemaA /\ last.source = "n1"
    /\ SchemaAB \in schemas
    /\ store.nodes[SchemaAB]["n1"] # NoText
    /\ "n1" \notin DOMAIN nodes

\* the cached edges of the other schemas
EdgesNotOf(edge_list, schema_name) ==
    SelectSeq(edge_list, LAMBDA e : e.schema_name # schema_name)

\* C37: a delete_edge or update_edge that returns changes cached edges of the
\* edge's schema only, as it changes rows of that schema's table only: the
\* cached edges of the other schemas are as before
C37_OtherSchemasEdgesKept ==
    [][(last'.op \in {"delete_edge", "update_edge"} /\ last'.ok) =>
          /\ EdgesNotOf(edges', last'.schema_name) = EdgesNotOf(edges, last'.schema_name)
          /\ \A s \in SchemaNames \ {last'.schema_name} :
                store'.edges[s] = store.edges[s]]_vars

\* C37 witness: delete_edge of n1 -> n2 of "a" returned, a_b_edges still has
\* its row n1 -> n2, and the view has no edge n1 -> n2 of "a_b" any more
C37_OtherSchemasEdgeRemoved ==
    /\ calls = 2
    /\ last.op = "delete_edge" /\ last.ok
    /\ last.schema_name = SchemaA
    /\ \E j \in DOMAIN store.edges[SchemaAB] :
          /\ store.edges[SchemaAB][j].source = last.source
          /\ store.edges[SchemaAB][j].target = last.target
    /\ edges = <<>>

\* C38: after delete_schema(name) returns, the view has no node and no edge
\* whose schema_name is name, and name is not in the schema set
C38_DroppedSchemaLeavesView ==
    (last.op = "delete_schema" /\ last.ok) =>
        /\ last.schema_name \notin schemas
        /\ \A i \in DOMAIN nodes : nodes[i].schema_name # last.schema_name
        /\ \A k \in DOMAIN edges : edges[k].schema_name # last.schema_name

\* C38 witness: delete_schema returned, the schema's tables are gone, and
\* the view still has an edge of that schema
C38_DroppedSchemaEdgeCached ==
    /\ last.op = "delete_schema" /\ last.ok
    /\ last.schema_name \notin schemas
    /\ last.schema_name \notin store.tables
    /\ \E k \in DOMAIN edges : edges[k].schema_name = last.schema_name

\* C39: in every state reached through Graph calls, the source and the target
\* of each cached edge have ids that are keys of the view's nodes map
C39_CachedEdgesHaveCachedEnds ==
    \A k \in DOMAIN edges :
        /\ edges[k].source # PyNone
        /\ edges[k].target # PyNone
        /\ edges[k].source.id \in DOMAIN nodes
        /\ edges[k].target.id \in DOMAIN nodes

\* C39 witness: delete_node returned and removed the id from the nodes map,
\* and a cached edge still has a node of that id as its source or target
C39_EdgeOfDeletedNodeCached ==
    /\ last.op = "delete_node" /\ last.ok
    /\ last.source \notin DOMAIN nodes
    /\ \E k \in DOMAIN edges :
          /\ edges[k].source # PyNone
          /\ edges[k].target # PyNone
          /\ last.source \in {edges[k].source.id, edges[k].target.id}

====
